---- MODULE Spec2Model ----
(***************************************************************************)
(* Ledger-backed task/document workflow engine (npa_chaincode).            *)
(*                                                                         *)
(* Strings are sequences of one-character strings, so that strip(),        *)
(* upper() and key concatenation are computed character by character.      *)
(* None is the record [none |-> TRUE] (used for dict-valued optionals);   *)
(* the dicts of the engine are records.  A JSON value (the metadata of a   *)
(* document version) is None or a record tagged with its Python type:      *)
(* bool, int and float by their text, str, list, and dict as the sequence  *)
(* of its items in insertion order.  A timestamp is the natural number     *)
(* read from a non-decreasing clock.  An error message is the TLA+ string  *)
(* naming the message template of the source.                              *)
(***************************************************************************)
EXTENDS Integers, Sequences, FiniteSets, TLC

\* ------------------------------------------------------------------ bounds
MaxClock == 0
MaxVersions == 2
MaxCreates == 2
MaxTick == 2
MaxKeys == 2

\* ----------------------------------------------------------- basic values
None == [none |-> TRUE]

\* str.isspace(): the characters str.strip() removes.  A character outside
\* printable ASCII, tab and newline is written u followed by its code point
\* in hexadecimal, and so is the grave accent (u0060), which a TLA+ string
\* cannot hold.
Whitespace ==
    {"\t", "\n", "u000b", "u000c", "u000d", "u001c", "u001d", "u001e",
     "u001f", " ", "u0085", "u00a0", "u1680", "u2000", "u2001", "u2002",
     "u2003", "u2004", "u2005", "u2006", "u2007", "u2008", "u2009", "u200a",
     "u2028", "u2029", "u202f", "u205f", "u3000"}

\* the characters str.upper() changes, each with its image (one character
\* or several), as the interpreter's Unicode database gives them
UpperMap ==
    [a |-> <<"A">>, b |-> <<"B">>, c |-> <<"C">>, d |-> <<"D">>,
     e |-> <<"E">>, f |-> <<"F">>, g |-> <<"G">>, h |-> <<"H">>,
     i |-> <<"I">>, j |-> <<"J">>, k |-> <<"K">>, l |-> <<"L">>,
     m |-> <<"M">>, n |-> <<"N">>, o |-> <<"O">>, p |-> <<"P">>,
     q |-> <<"Q">>, r |-> <<"R">>, s |-> <<"S">>, t |-> <<"T">>,
     u |-> <<"U">>, v |-> <<"V">>, w |-> <<"W">>, x |-> <<"X">>,
     y |-> <<"Y">>, z |-> <<"Z">>, u00b5 |-> <<"u039c">>,
     u00df |-> <<"S","S">>, u00e0 |-> <<"u00c0">>, u00e1 |-> <<"u00c1">>,
     u00e2 |-> <<"u00c2">>, u00e3 |-> <<"u00c3">>, u00e4 |-> <<"u00c4">>,
     u00e5 |-> <<"u00c5">>, u00e6 |-> <<"u00c6">>, u00e7 |-> <<"u00c7">>,
     u00e8 |-> <<"u00c8">>, u00e9 |-> <<"u00c9">>, u00ea |-> <<"u00ca">>,
     u00eb |-> <<"u00cb">>, u00ec |-> <<"u00cc">>, u00ed |-> <<"u00cd">>,
     u00ee |-> <<"u00ce">>, u00ef |-> <<"u00cf">>, u00f0 |-> <<"u00d0">>,
     u00f1 |-> <<"u00d1">>, u00f2 |-> <<"u00d2">>, u00f3 |-> <<"u00d3">>,
     u00f4 |-> <<"u00d4">>, u00f5 |-> <<"u00d5">>, u00f6 |-> <<"u00d6">>,
     u00f8 |-> <<"u00d8">>, u00f9 |-> <<"u00d9">>, u00fa |-> <<"u00da">>,
     u00fb |-> <<"u00db">>, u00fc |-> <<"u00dc">>, u00fd |-> <<"u00dd">>,
     u00fe |-> <<"u00de">>, u00ff |-> <<"u0178">>, u0101 |-> <<"u0100">>,
     u0103 |-> <<"u0102">>, u0105 |-> <<"u0104">>, u0107 |-> <<"u0106">>,
     u0109 |-> <<"u0108">>, u010b |-> <<"u010a">>, u010d |-> <<"u010c">>,
     u010f |-> <<"u010e">>, u0111 |-> <<"u0110">>, u0113 |-> <<"u0112">>,
     u0115 |-> <<"u0114">>, u0117 |-> <<"u0116">>, u0119 |-> <<"u0118">>,
     u011b |-> <<"u011a">>, u011d |-> <<"u011c">>, u011f |-> <<"u011e">>,
     u0121 |-> <<"u0120">>, u0123 |-> <<"u0122">>, u0125 |-> <<"u0124">>,
     u0127 |-> <<"u0126">>, u0129 |-> <<"u0128">>, u012b |-> <<"u012a">>,
     u012d |-> <<"u012c">>, u012f |-> <<"u012e">>, u0131 |-> <<"I">>,
     u0133 |-> <<"u0132">>, u0135 |-> <<"u0134">>, u0137 |-> <<"u0136">>,
     u013a |-> <<"u0139">>, u013c |-> <<"u013b">>, u013e |-> <<"u013d">>,
     u0140 |-> <<"u013f">>, u0142 |-> <<"u0141">>, u0144 |-> <<"u0143">>,
     u0146 |-> <<"u0145">>, u0148 |-> <<"u0147">>, u0149 |-> <<"u02bc","N">>,
     u014b |-> <<"u014a">>, u014d |-> <<"u014c">>, u014f |-> <<"u014e">>,
     u0151 |-> <<"u0150">>, u0153 |-> <<"u0152">>, u0155 |-> <<"u0154">>,
     u0157 |-> <<"u0156">>, u0159 |-> <<"u0158">>, u015b |-> <<"u015a">>,
     u015d |-> <<"u015c">>, u015f |-> <<"u015e">>, u0161 |-> <<"u0160">>,
     u0163 |-> <<"u0162">>, u0165 |-> <<"u0164">>, u0167 |-> <<"u0166">>,
     u0169 |-> <<"u0168">>, u016b |-> <<"u016a">>, u016d |-> <<"u016c">>,
     u016f |-> <<"u016e">>, u0171 |-> <<"u0170">>, u0173 |-> <<"u0172">>,
     u0175 |-> <<"u0174">>, u0177 |-> <<"u0176">>, u017a |-> <<"u0179">>,
     u017c |-> <<"u017b">>, u017e |-> <<"u017d">>, u017f |-> <<"S">>,
     u0180 |-> <<"u0243">>, u0183 |-> <<"u0182">>, u0185 |-> <<"u0184">>,
     u0188 |-> <<"u0187">>, u018c |-> <<"u018b">>, u0192 |-> <<"u0191">>,
     u0195 |-> <<"u01f6">>, u0199 |-> <<"u0198">>, u019a |-> <<"u023d">>,
     u019e |-> <<"u0220">>, u01a1 |-> <<"u01a0">>, u01a3 |-> <<"u01a2">>,
     u01a5 |-> <<"u01a4">>, u01a8 |-> <<"u01a7">>, u01ad |-> <<"u01ac">>,
     u01b0 |-> <<"u01af">>, u01b4 |-> <<"u01b3">>, u01b6 |-> <<"u01b5">>,
     u01b9 |-> <<"u01b8">>, u01bd |-> <<"u01bc">>, u01bf |-> <<"u01f7">>,
     u01c5 |-> <<"u01c4">>, u01c6 |-> <<"u01c4">>, u01c8 |-> <<"u01c7">>,
     u01c9 |-> <<"u01c7">>, u01cb |-> <<"u01ca">>, u01cc |-> <<"u01ca">>,
     u01ce |-> <<"u01cd">>, u01d0 |-> <<"u01cf">>, u01d2 |-> <<"u01d1">>,
     u01d4 |-> <<"u01d3">>, u01d6 |-> <<"u01d5">>, u01d8 |-> <<"u01d7">>,
     u01da |-> <<"u01d9">>, u01dc |-> <<"u01db">>, u01dd |-> <<"u018e">>,
     u01df |-> <<"u01de">>, u01e1 |-> <<"u01e0">>, u01e3 |-> <<"u01e2">>,
     u01e5 |-> <<"u01e4">>, u01e7 |-> <<"u01e6">>, u01e9 |-> <<"u01e8">>,
     u01eb |-> <<"u01ea">>, u01ed |-> <<"u01ec">>, u01ef |-> <<"u01ee">>,
     u01f0 |-> <<"J","u030c">>, u01f2 |-> <<"u01f1">>, u01f3 |-> <<"u01f1">>,
     u01f5 |-> <<"u01f4">>, u01f9 |-> <<"u01f8">>, u01fb |-> <<"u01fa">>,
     u01fd |-> <<"u01fc">>, u01ff |-> <<"u01fe">>, u0201 |-> <<"u0200">>,
     u0203 |-> <<"u0202">>, u0205 |-> <<"u0204">>, u0207 |-> <<"u0206">>,
     u0209 |-> <<"u0208">>, u020b |-> <<"u020a">>, u020d |-> <<"u020c">>,
     u020f |-> <<"u020e">>, u0211 |-> <<"u0210">>, u0213 |-> <<"u0212">>,
     u0215 |-> <<"u0214">>, u0217 |-> <<"u0216">>, u0219 |-> <<"u0218">>,
     u021b |-> <<"u021a">>, u021d |-> <<"u021c">>, u021f |-> <<"u021e">>,
     u0223 |-> <<"u0222">>, u0225 |-> <<"u0224">>, u0227 |-> <<"u0226">>,
     u0229 |-> <<"u0228">>, u022b |-> <<"u022a">>, u022d |-> <<"u022c">>,
     u022f |-> <<"u022e">>, u0231 |-> <<"u0230">>, u0233 |-> <<"u0232">>,
     u023c |-> <<"u023b">>, u023f |-> <<"u2c7e">>, u0240 |-> <<"u2c7f">>,
     u0242 |-> <<"u0241">>, u0247 |-> <<"u0246">>, u0249 |-> <<"u0248">>,
     u024b |-> <<"u024a">>, u024d |-> <<"u024c">>, u024f |-> <<"u024e">>,
     u0250 |-> <<"u2c6f">>, u0251 |-> <<"u2c6d">>, u0252 |-> <<"u2c70">>,
     u0253 |-> <<"u0181">>, u0254 |-> <<"u0186">>, u0256 |-> <<"u0189">>,
     u0257 |-> <<"u018a">>, u0259 |-> <<"u018f">>, u025b |-> <<"u0190">>,
     u025c |-> <<"ua7ab">>, u0260 |-> <<"u0193">>, u0261 |-> <<"ua7ac">>,
     u0263 |-> <<"u0194">>, u0265 |-> <<"ua78d">>, u0266 |-> <<"ua7aa">>,
     u0268 |-> <<"u0197">>, u0269 |-> <<"u0196">>, u026a |-> <<"ua7ae">>,
     u026b |-> <<"u2c62">>, u026c |-> <<"ua7ad">>, u026f |-> <<"u019c">>,
     u0271 |-> <<"u2c6e">>, u0272 |-> <<"u019d">>, u0275 |-> <<"u019f">>,
     u027d |-> <<"u2c64">>, u0280 |-> <<"u01a6">>, u0282 |-> <<"ua7c5">>,
     u0283 |-> <<"u01a9">>, u0287 |-> <<"ua7b1">>, u0288 |-> <<"u01ae">>,
     u0289 |-> <<"u0244">>, u028a |-> <<"u01b1">>, u028b |-> <<"u01b2">>,
     u028c |-> <<"u0245">>, u0292 |-> <<"u01b7">>, u029d |-> <<"ua7b2">>,
     u029e |-> <<"ua7b0">>, u0345 |-> <<"u0399">>, u0371 |-> <<"u0370">>,
     u0373 |-> <<"u0372">>, u0377 |-> <<"u0376">>, u037b |-> <<"u03fd">>,
     u037c |-> <<"u03fe">>, u037d |-> <<"u03ff">>,
     u0390 |-> <<"u0399","u0308","u0301">>, u03ac |-> <<"u0386">>,
     u03ad |-> <<"u0388">>, u03ae |-> <<"u0389">>, u03af |-> <<"u038a">>,
     u03b0 |-> <<"u03a5","u0308","u0301">>, u03b1 |-> <<"u0391">>,
     u03b2 |-> <<"u0392">>, u03b3 |-> <<"u0393">>, u03b4 |-> <<"u0394">>,
     u03b5 |-> <<"u0395">>, u03b6 |-> <<"u0396">>, u03b7 |-> <<"u0397">>,
     u03b8 |-> <<"u0398">>, u03b9 |-> <<"u0399">>, u03ba |-> <<"u039a">>,
     u03bb |-> <<"u039b">>, u03bc |-> <<"u039c">>, u03bd |-> <<"u039d">>,
     u03be |-> <<"u039e">>, u03bf |-> <<"u039f">>, u03c0 |-> <<"u03a0">>,
     u03c1 |-> <<"u03a1">>, u03c2 |-> <<"u03a3">>, u03c3 |-> <<"u03a3">>,
     u03c4 |-> <<"u03a4">>, u03c5 |-> <<"u03a5">>, u03c6 |-> <<"u03a6">>,
     u03c7 |-> <<"u03a7">>, u03c8 |-> <<"u03a8">>, u03c9 |-> <<"u03a9">>,
     u03ca |-> <<"u03aa">>, u03cb |-> <<"u03ab">>, u03cc |-> <<"u038c">>,
     u03cd |-> <<"u038e">>, u03ce |-> <<"u038f">>, u03d0 |-> <<"u0392">>,
     u03d1 |-> <<"u0398">>, u03d5 |-> <<"u03a6">>, u03d6 |-> <<"u03a0">>,
     u03d7 |-> <<"u03cf">>, u03d9 |-> <<"u03d8">>, u03db |-> <<"u03da">>,
     u03dd |-> <<"u03dc">>, u03df |-> <<"u03de">>, u03e1 |-> <<"u03e0">>,
     u03e3 |-> <<"u03e2">>, u03e5 |-> <<"u03e4">>, u03e7 |-> <<"u03e6">>,
     u03e9 |-> <<"u03e8">>, u03eb |-> <<"u03ea">>, u03ed |-> <<"u03ec">>,
     u03ef |-> <<"u03ee">>, u03f0 |-> <<"u039a">>, u03f1 |-> <<"u03a1">>,
     u03f2 |-> <<"u03f9">>, u03f3 |-> <<"u037f">>, u03f5 |-> <<"u0395">>,
     u03f8 |-> <<"u03f7">>, u03fb |-> <<"u03fa">>, u0430 |-> <<"u0410">>,
     u0431 |-> <<"u0411">>, u0432 |-> <<"u0412">>, u0433 |-> <<"u0413">>,
     u0434 |-> <<"u0414">>, u0435 |-> <<"u0415">>, u0436 |-> <<"u0416">>,
     u0437 |-> <<"u0417">>, u0438 |-> <<"u0418">>, u0439 |-> <<"u0419">>,
     u043a |-> <<"u041a">>, u043b |-> <<"u041b">>, u043c |-> <<"u041c">>,
     u043d |-> <<"u041d">>, u043e |-> <<"u041e">>, u043f |-> <<"u041f">>,
     u0440 |-> <<"u0420">>, u0441 |-> <<"u0421">>, u0442 |-> <<"u0422">>,
     u0443 |-> <<"u0423">>, u0444 |-> <<"u0424">>, u0445 |-> <<"u0425">>,
     u0446 |-> <<"u0426">>, u0447 |-> <<"u0427">>, u0448 |-> <<"u0428">>,
     u0449 |-> <<"u0429">>, u044a |-> <<"u042a">>, u044b |-> <<"u042b">>,
     u044c |-> <<"u042c">>, u044d |-> <<"u042d">>, u044e |-> <<"u042e">>,
     u044f |-> <<"u042f">>, u0450 |-> <<"u0400">>, u0451 |-> <<"u0401">>,
     u0452 |-> <<"u0402">>, u0453 |-> <<"u0403">>, u0454 |-> <<"u0404">>,
     u0455 |-> <<"u0405">>, u0456 |-> <<"u0406">>, u0457 |-> <<"u0407">>,
     u0458 |-> <<"u0408">>, u0459 |-> <<"u0409">>, u045a |-> <<"u040a">>,
     u045b |-> <<"u040b">>, u045c |-> <<"u040c">>, u045d |-> <<"u040d">>,
     u045e |-> <<"u040e">>, u045f |-> <<"u040f">>, u0461 |-> <<"u0460">>,
     u0463 |-> <<"u0462">>, u0465 |-> <<"u0464">>, u0467 |-> <<"u0466">>,
     u0469 |-> <<"u0468">>, u046b |-> <<"u046a">>, u046d |-> <<"u046c">>,
     u046f |-> <<"u046e">>, u0471 |-> <<"u0470">>, u0473 |-> <<"u0472">>,
     u0475 |-> <<"u0474">>, u0477 |-> <<"u0476">>, u0479 |-> <<"u0478">>,
     u047b |-> <<"u047a">>, u047d |-> <<"u047c">>, u047f |-> <<"u047e">>,
     u0481 |-> <<"u0480">>, u048b |-> <<"u048a">>, u048d |-> <<"u048c">>,
     u048f |-> <<"u048e">>, u0491 |-> <<"u0490">>, u0493 |-> <<"u0492">>,
     u0495 |-> <<"u0494">>, u0497 |-> <<"u0496">>, u0499 |-> <<"u0498">>,
     u049b |-> <<"u049a">>, u049d |-> <<"u049c">>, u049f |-> <<"u049e">>,
     u04a1 |-> <<"u04a0">>, u04a3 |-> <<"u04a2">>, u04a5 |-> <<"u04a4">>,
     u04a7 |-> <<"u04a6">>, u04a9 |-> <<"u04a8">>, u04ab |-> <<"u04aa">>,
     u04ad |-> <<"u04ac">>, u04af |-> <<"u04ae">>, u04b1 |-> <<"u04b0">>,
     u04b3 |-> <<"u04b2">>, u04b5 |-> <<"u04b4">>, u04b7 |-> <<"u04b6">>,
     u04b9 |-> <<"u04b8">>, u04bb |-> <<"u04ba">>, u04bd |-> <<"u04bc">>,
     u04bf |-> <<"u04be">>, u04c2 |-> <<"u04c1">>, u04c4 |-> <<"u04c3">>,
     u04c6 |-> <<"u04c5">>, u04c8 |-> <<"u04c7">>, u04ca |-> <<"u04c9">>,
     u04cc |-> <<"u04cb">>, u04ce |-> <<"u04cd">>, u04cf |-> <<"u04c0">>,
     u04d1 |-> <<"u04d0">>, u04d3 |-> <<"u04d2">>, u04d5 |-> <<"u04d4">>,
     u04d7 |-> <<"u04d6">>, u04d9 |-> <<"u04d8">>, u04db |-> <<"u04da">>,
     u04dd |-> <<"u04dc">>, u04df |-> <<"u04de">>, u04e1 |-> <<"u04e0">>,
     u04e3 |-> <<"u04e2">>, u04e5 |-> <<"u04e4">>, u04e7 |-> <<"u04e6">>,
     u04e9 |-> <<"u04e8">>, u04eb |-> <<"u04ea">>, u04ed |-> <<"u04ec">>,
     u04ef |-> <<"u04ee">>, u04f1 |-> <<"u04f0">>, u04f3 |-> <<"u04f2">>,
     u04f5 |-> <<"u04f4">>, u04f7 |-> <<"u04f6">>, u04f9 |-> <<"u04f8">>,
     u04fb |-> <<"u04fa">>, u04fd |-> <<"u04fc">>, u04ff |-> <<"u04fe">>,
     u0501 |-> <<"u0500">>, u0503 |-> <<"u0502">>, u0505 |-> <<"u0504">>,
     u0507 |-> <<"u0506">>, u0509 |-> <<"u0508">>, u050b |-> <<"u050a">>,
     u050d |-> <<"u050c">>, u050f |-> <<"u050e">>, u0511 |-> <<"u0510">>,
     u0513 |-> <<"u0512">>, u0515 |-> <<"u0514">>, u0517 |-> <<"u0516">>,
     u0519 |-> <<"u0518">>, u051b |-> <<"u051a">>, u051d |-> <<"u051c">>,
     u051f |-> <<"u051e">>, u0521 |-> <<"u0520">>, u0523 |-> <<"u0522">>,
     u0525 |-> <<"u0524">>, u0527 |-> <<"u0526">>, u0529 |-> <<"u0528">>,
     u052b |-> <<"u052a">>, u052d |-> <<"u052c">>, u052f |-> <<"u052e">>,
     u0561 |-> <<"u0531">>, u0562 |-> <<"u0532">>, u0563 |-> <<"u0533">>,
     u0564 |-> <<"u0534">>, u0565 |-> <<"u0535">>, u0566 |-> <<"u0536">>,
     u0567 |-> <<"u0537">>, u0568 |-> <<"u0538">>, u0569 |-> <<"u0539">>,
     u056a |-> <<"u053a">>, u056b |-> <<"u053b">>, u056c |-> <<"u053c">>,
     u056d |-> <<"u053d">>, u056e |-> <<"u053e">>, u056f |-> <<"u053f">>,
     u0570 |-> <<"u0540">>, u0571 |-> <<"u0541">>, u0572 |-> <<"u0542">>,
     u0573 |-> <<"u0543">>, u0574 |-> <<"u0544">>, u0575 |-> <<"u0545">>,
     u0576 |-> <<"u0546">>, u0577 |-> <<"u0547">>, u0578 |-> <<"u0548">>,
     u0579 |-> <<"u0549">>, u057a |-> <<"u054a">>, u057b |-> <<"u054b">>,
     u057c |-> <<"u054c">>, u057d |-> <<"u054d">>, u057e |-> <<"u054e">>,
     u057f |-> <<"u054f">>, u0580 |-> <<"u0550">>, u0581 |-> <<"u0551">>,
     u0582 |-> <<"u0552">>, u0583 |-> <<"u0553">>, u0584 |-> <<"u0554">>,
     u0585 |-> <<"u0555">>, u0586 |-> <<"u0556">>,
     u0587 |-> <<"u0535","u0552">>, u10d0 |-> <<"u1c90">>,
     u10d1 |-> <<"u1c91">>, u10d2 |-> <<"u1c92">>, u10d3 |-> <<"u1c93">>,
     u10d4 |-> <<"u1c94">>, u10d5 |-> <<"u1c95">>, u10d6 |-> <<"u1c96">>,
     u10d7 |-> <<"u1c97">>, u10d8 |-> <<"u1c98">>, u10d9 |-> <<"u1c99">>,
     u10da |-> <<"u1c9a">>, u10db |-> <<"u1c9b">>, u10dc |-> <<"u1c9c">>,
     u10dd |-> <<"u1c9d">>, u10de |-> <<"u1c9e">>, u10df |-> <<"u1c9f">>,
     u10e0 |-> <<"u1ca0">>, u10e1 |-> <<"u1ca1">>, u10e2 |-> <<"u1ca2">>,
     u10e3 |-> <<"u1ca3">>, u10e4 |-> <<"u1ca4">>, u10e5 |-> <<"u1ca5">>,
     u10e6 |-> <<"u1ca6">>, u10e7 |-> <<"u1ca7">>, u10e8 |-> <<"u1ca8">>,
     u10e9 |-> <<"u1ca9">>, u10ea |-> <<"u1caa">>, u10eb |-> <<"u1cab">>,
     u10ec |-> <<"u1cac">>, u10ed |-> <<"u1cad">>, u10ee |-> <<"u1cae">>,
     u10ef |-> <<"u1caf">>, u10f0 |-> <<"u1cb0">>, u10f1 |-> <<"u1cb1">>,
     u10f2 |-> <<"u1cb2">>, u10f3 |-> <<"u1cb3">>, u10f4 |-> <<"u1cb4">>,
     u10f5 |-> <<"u1cb5">>, u10f6 |-> <<"u1cb6">>, u10f7 |-> <<"u1cb7">>,
     u10f8 |-> <<"u1cb8">>, u10f9 |-> <<"u1cb9">>, u10fa |-> <<"u1cba">>,
     u10fd |-> <<"u1cbd">>, u10fe |-> <<"u1cbe">>, u10ff |-> <<"u1cbf">>,
     u13f8 |-> <<"u13f0">>, u13f9 |-> <<"u13f1">>, u13fa |-> <<"u13f2">>,
     u13fb |-> <<"u13f3">>, u13fc |-> <<"u13f4">>, u13fd |-> <<"u13f5">>,
     u1c80 |-> <<"u0412">>, u1c81 |-> <<"u0414">>, u1c82 |-> <<"u041e">>,
     u1c83 |-> <<"u0421">>, u1c84 |-> <<"u0422">>, u1c85 |-> <<"u0422">>,
     u1c86 |-> <<"u042a">>, u1c87 |-> <<"u0462">>, u1c88 |-> <<"ua64a">>,
     u1d79 |-> <<"ua77d">>, u1d7d |-> <<"u2c63">>, u1d8e |-> <<"ua7c6">>,
     u1e01 |-> <<"u1e00">>, u1e03 |-> <<"u1e02">>, u1e05 |-> <<"u1e04">>,
     u1e07 |-> <<"u1e06">>, u1e09 |-> <<"u1e08">>, u1e0b |-> <<"u1e0a">>,
     u1e0d |-> <<"u1e0c">>, u1e0f |-> <<"u1e0e">>, u1e11 |-> <<"u1e10">>,
     u1e13 |-> <<"u1e12">>, u1e15 |-> <<"u1e14">>, u1e17 |-> <<"u1e16">>,
     u1e19 |-> <<"u1e18">>, u1e1b |-> <<"u1e1a">>, u1e1d |-> <<"u1e1c">>,
     u1e1f |-> <<"u1e1e">>, u1e21 |-> <<"u1e20">>, u1e23 |-> <<"u1e22">>,
     u1e25 |-> <<"u1e24">>, u1e27 |-> <<"u1e26">>, u1e29 |-> <<"u1e28">>,
     u1e2b |-> <<"u1e2a">>, u1e2d |-> <<"u1e2c">>, u1e2f |-> <<"u1e2e">>,
     u1e31 |-> <<"u1e30">>, u1e33 |-> <<"u1e32">>, u1e35 |-> <<"u1e34">>,
     u1e37 |-> <<"u1e36">>, u1e39 |-> <<"u1e38">>, u1e3b |-> <<"u1e3a">>,
     u1e3d |-> <<"u1e3c">>, u1e3f |-> <<"u1e3e">>, u1e41 |-> <<"u1e40">>,
     u1e43 |-> <<"u1e42">>, u1e45 |-> <<"u1e44">>, u1e47 |-> <<"u1e46">>,
     u1e49 |-> <<"u1e48">>, u1e4b |-> <<"u1e4a">>, u1e4d |-> <<"u1e4c">>,
     u1e4f |-> <<"u1e4e">>, u1e51 |-> <<"u1e50">>, u1e53 |-> <<"u1e52">>,
     u1e55 |-> <<"u1e54">>, u1e57 |-> <<"u1e56">>, u1e59 |-> <<"u1e58">>,
     u1e5b |-> <<"u1e5a">>, u1e5d |-> <<"u1e5c">>, u1e5f |-> <<"u1e5e">>,
     u1e61 |-> <<"u1e60">>, u1e63 |-> <<"u1e62">>, u1e65 |-> <<"u1e64">>,
     u1e67 |-> <<"u1e66">>, u1e69 |-> <<"u1e68">>, u1e6b |-> <<"u1e6a">>,
     u1e6d |-> <<"u1e6c">>, u1e6f |-> <<"u1e6e">>, u1e71 |-> <<"u1e70">>,
     u1e73 |-> <<"u1e72">>, u1e75 |-> <<"u1e74">>, u1e77 |-> <<"u1e76">>,
     u1e79 |-> <<"u1e78">>, u1e7b |-> <<"u1e7a">>, u1e7d |-> <<"u1e7c">>,
     u1e7f |-> <<"u1e7e">>, u1e81 |-> <<"u1e80">>, u1e83 |-> <<"u1e82">>,
     u1e85 |-> <<"u1e84">>, u1e87 |-> <<"u1e86">>, u1e89 |-> <<"u1e88">>,
     u1e8b |-> <<"u1e8a">>, u1e8d |-> <<"u1e8c">>, u1e8f |-> <<"u1e8e">>,
     u1e91 |-> <<"u1e90">>, u1e93 |-> <<"u1e92">>, u1e95 |-> <<"u1e94">>,
     u1e96 |-> <<"H","u0331">>, u1e97 |-> <<"T","u0308">>,
     u1e98 |-> <<"W","u030a">>, u1e99 |-> <<"Y","u030a">>,
     u1e9a |-> <<"A","u02be">>, u1e9b |-> <<"u1e60">>, u1ea1 |-> <<"u1ea0">>,
     u1ea3 |-> <<"u1ea2">>, u1ea5 |-> <<"u1ea4">>, u1ea7 |-> <<"u1ea6">>,
     u1ea9 |-> <<"u1ea8">>, u1eab |-> <<"u1eaa">>, u1ead |-> <<"u1eac">>,
     u1eaf |-> <<"u1eae">>, u1eb1 |-> <<"u1eb0">>, u1eb3 |-> <<"u1eb2">>,
     u1eb5 |-> <<"u1eb4">>, u1eb7 |-> <<"u1eb6">>, u1eb9 |-> <<"u1eb8">>,
     u1ebb |-> <<"u1eba">>, u1ebd |-> <<"u1ebc">>, u1ebf |-> <<"u1ebe">>,
     u1ec1 |-> <<"u1ec0">>, u1ec3 |-> <<"u1ec2">>, u1ec5 |-> <<"u1ec4">>,
     u1ec7 |-> <<"u1ec6">>, u1ec9 |-> <<"u1ec8">>, u1ecb |-> <<"u1eca">>,
     u1ecd |-> <<"u1ecc">>, u1ecf |-> <<"u1ece">>, u1ed1 |-> <<"u1ed0">>,
     u1ed3 |-> <<"u1ed2">>, u1ed5 |-> <<"u1ed4">>, u1ed7 |-> <<"u1ed6">>,
     u1ed9 |-> <<"u1ed8">>, u1edb |-> <<"u1eda">>, u1edd |-> <<"u1edc">>,
     u1edf |-> <<"u1ede">>, u1ee1 |-> <<"u1ee0">>, u1ee3 |-> <<"u1ee2">>,
     u1ee5 |-> <<"u1ee4">>, u1ee7 |-> <<"u1ee6">>, u1ee9 |-> <<"u1ee8">>,
     u1eeb |-> <<"u1eea">>, u1eed |-> <<"u1eec">>, u1eef |-> <<"u1eee">>,
     u1ef1 |-> <<"u1ef0">>, u1ef3 |-> <<"u1ef2">>, u1ef5 |-> <<"u1ef4">>,
     u1ef7 |-> <<"u1ef6">>, u1ef9 |-> <<"u1ef8">>, u1efb |-> <<"u1efa">>,
     u1efd |-> <<"u1efc">>, u1eff |-> <<"u1efe">>, u1f00 |-> <<"u1f08">>,
     u1f01 |-> <<"u1f09">>, u1f02 |-> <<"u1f0a">>, u1f03 |-> <<"u1f0b">>,
     u1f04 |-> <<"u1f0c">>, u1f05 |-> <<"u1f0d">>, u1f06 |-> <<"u1f0e">>,
     u1f07 |-> <<"u1f0f">>, u1f10 |-> <<"u1f18">>, u1f11 |-> <<"u1f19">>,
     u1f12 |-> <<"u1f1a">>, u1f13 |-> <<"u1f1b">>, u1f14 |-> <<"u1f1c">>,
     u1f15 |-> <<"u1f1d">>, u1f20 |-> <<"u1f28">>, u1f21 |-> <<"u1f29">>,
     u1f22 |-> <<"u1f2a">>, u1f23 |-> <<"u1f2b">>, u1f24 |-> <<"u1f2c">>,
     u1f25 |-> <<"u1f2d">>, u1f26 |-> <<"u1f2e">>, u1f27 |-> <<"u1f2f">>,
     u1f30 |-> <<"u1f38">>, u1f31 |-> <<"u1f39">>, u1f32 |-> <<"u1f3a">>,
     u1f33 |-> <<"u1f3b">>, u1f34 |-> <<"u1f3c">>, u1f35 |-> <<"u1f3d">>,
     u1f36 |-> <<"u1f3e">>, u1f37 |-> <<"u1f3f">>, u1f40 |-> <<"u1f48">>,
     u1f41 |-> <<"u1f49">>, u1f42 |-> <<"u1f4a">>, u1f43 |-> <<"u1f4b">>,
     u1f44 |-> <<"u1f4c">>, u1f45 |-> <<"u1f4d">>,
     u1f50 |-> <<"u03a5","u0313">>, u1f51 |-> <<"u1f59">>,
     u1f52 |-> <<"u03a5","u0313","u0300">>, u1f53 |-> <<"u1f5b">>,
     u1f54 |-> <<"u03a5","u0313","u0301">>, u1f55 |-> <<"u1f5d">>,
     u1f56 |-> <<"u03a5","u0313","u0342">>, u1f57 |-> <<"u1f5f">>,
     u1f60 |-> <<"u1f68">>, u1f61 |-> <<"u1f69">>, u1f62 |-> <<"u1f6a">>,
     u1f63 |-> <<"u1f6b">>, u1f64 |-> <<"u1f6c">>, u1f65 |-> <<"u1f6d">>,
     u1f66 |-> <<"u1f6e">>, u1f67 |-> <<"u1f6f">>, u1f70 |-> <<"u1fba">>,
     u1f71 |-> <<"u1fbb">>, u1f72 |-> <<"u1fc8">>, u1f73 |-> <<"u1fc9">>,
     u1f74 |-> <<"u1fca">>, u1f75 |-> <<"u1fcb">>, u1f76 |-> <<"u1fda">>,
     u1f77 |-> <<"u1fdb">>, u1f78 |-> <<"u1ff8">>, u1f79 |-> <<"u1ff9">>,
     u1f7a |-> <<"u1fea">>, u1f7b |-> <<"u1feb">>, u1f7c |-> <<"u1ffa">>,
     u1f7d |-> <<"u1ffb">>, u1f80 |-> <<"u1f08","u0399">>,
     u1f81 |-> <<"u1f09","u0399">>, u1f82 |-> <<"u1f0a","u0399">>,
     u1f83 |-> <<"u1f0b","u0399">>, u1f84 |-> <<"u1f0c","u0399">>,
     u1f85 |-> <<"u1f0d","u0399">>, u1f86 |-> <<"u1f0e","u0399">>,
     u1f87 |-> <<"u1f0f","u0399">>, u1f88 |-> <<"u1f08","u0399">>,
     u1f89 |-> <<"u1f09","u0399">>, u1f8a |-> <<"u1f0a","u0399">>,
     u1f8b |-> <<"u1f0b","u0399">>, u1f8c |-> <<"u1f0c","u0399">>,
     u1f8d |-> <<"u1f0d","u0399">>, u1f8e |-> <<"u1f0e","u0399">>,
     u1f8f |-> <<"u1f0f","u0399">>, u1f90 |-> <<"u1f28","u0399">>,
     u1f91 |-> <<"u1f29","u0399">>, u1f92 |-> <<"u1f2a","u0399">>,
     u1f93 |-> <<"u1f2b","u0399">>, u1f94 |-> <<"u1f2c","u0399">>,
     u1f95 |-> <<"u1f2d","u0399">>, u1f96 |-> <<"u1f2e","u0399">>,
     u1f97 |-> <<"u1f2f","u0399">>, u1f98 |-> <<"u1f28","u0399">>,
     u1f99 |-> <<"u1f29","u0399">>, u1f9a |-> <<"u1f2a","u0399">>,
     u1f9b |-> <<"u1f2b","u0399">>, u1f9c |-> <<"u1f2c","u0399">>,
     u1f9d |-> <<"u1f2d","u0399">>, u1f9e |-> <<"u1f2e","u0399">>,
     u1f9f |-> <<"u1f2f","u0399">>, u1fa0 |-> <<"u1f68","u0399">>,
     u1fa1 |-> <<"u1f69","u0399">>, u1fa2 |-> <<"u1f6a","u0399">>,
     u1fa3 |-> <<"u1f6b","u0399">>, u1fa4 |-> <<"u1f6c","u0399">>,
     u1fa5 |-> <<"u1f6d","u0399">>, u1fa6 |-> <<"u1f6e","u0399">>,
     u1fa7 |-> <<"u1f6f","u0399">>, u1fa8 |-> <<"u1f68","u0399">>,
     u1fa9 |-> <<"u1f69","u0399">>, u1faa |-> <<"u1f6a","u0399">>,
     u1fab |-> <<"u1f6b","u0399">>, u1fac |-> <<"u1f6c","u0399">>,
     u1fad |-> <<"u1f6d","u0399">>, u1fae |-> <<"u1f6e","u0399">>,
     u1faf |-> <<"u1f6f","u0399">>, u1fb0 |-> <<"u1fb8">>,
     u1fb1 |-> <<"u1fb9">>, u1fb2 |-> <<"u1fba","u0399">>,
     u1fb3 |-> <<"u0391","u0399">>, u1fb4 |-> <<"u0386","u0399">>,
     u1fb6 |-> <<"u0391","u0342">>, u1fb7 |-> <<"u0391","u0342","u0399">>,
     u1fbc |-> <<"u0391","u0399">>, u1fbe |-> <<"u0399">>,
     u1fc2 |-> <<"u1fca","u0399">>, u1fc3 |-> <<"u0397","u0399">>,
     u1fc4 |-> <<"u0389","u0399">>, u1fc6 |-> <<"u0397","u0342">>,
     u1fc7 |-> <<"u0397","u0342","u0399">>, u1fcc |-> <<"u0397","u0399">>,
     u1fd0 |-> <<"u1fd8">>, u1fd1 |-> <<"u1fd9">>,
     u1fd2 |-> <<"u0399","u0308","u0300">>,
     u1fd3 |-> <<"u0399","u0308","u0301">>, u1fd6 |-> <<"u0399","u0342">>,
     u1fd7 |-> <<"u0399","u0308","u0342">>, u1fe0 |-> <<"u1fe8">>,
     u1fe1 |-> <<"u1fe9">>, u1fe2 |-> <<"u03a5","u0308","u0300">>,
     u1fe3 |-> <<"u03a5","u0308","u0301">>, u1fe4 |-> <<"u03a1","u0313">>,
     u1fe5 |-> <<"u1fec">>, u1fe6 |-> <<"u03a5","u0342">>,
     u1fe7 |-> <<"u03a5","u0308","u0342">>, u1ff2 |-> <<"u1ffa","u0399">>,
     u1ff3 |-> <<"u03a9","u0399">>, u1ff4 |-> <<"u038f","u0399">>,
     u1ff6 |-> <<"u03a9","u0342">>, u1ff7 |-> <<"u03a9","u0342","u0399">>,
     u1ffc |-> <<"u03a9","u0399">>, u214e |-> <<"u2132">>,
     u2170 |-> <<"u2160">>, u2171 |-> <<"u2161">>, u2172 |-> <<"u2162">>,
     u2173 |-> <<"u2163">>, u2174 |-> <<"u2164">>, u2175 |-> <<"u2165">>,
     u2176 |-> <<"u2166">>, u2177 |-> <<"u2167">>, u2178 |-> <<"u2168">>,
     u2179 |-> <<"u2169">>, u217a |-> <<"u216a">>, u217b |-> <<"u216b">>,
     u217c |-> <<"u216c">>, u217d |-> <<"u216d">>, u217e |-> <<"u216e">>,
     u217f |-> <<"u216f">>, u2184 |-> <<"u2183">>, u24d0 |-> <<"u24b6">>,
     u24d1 |-> <<"u24b7">>, u24d2 |-> <<"u24b8">>, u24d3 |-> <<"u24b9">>,
     u24d4 |-> <<"u24ba">>, u24d5 |-> <<"u24bb">>, u24d6 |-> <<"u24bc">>,
     u24d7 |-> <<"u24bd">>, u24d8 |-> <<"u24be">>, u24d9 |-> <<"u24bf">>,
     u24da |-> <<"u24c0">>, u24db |-> <<"u24c1">>, u24dc |-> <<"u24c2">>,
     u24dd |-> <<"u24c3">>, u24de |-> <<"u24c4">>, u24df |-> <<"u24c5">>,
     u24e0 |-> <<"u24c6">>, u24e1 |-> <<"u24c7">>, u24e2 |-> <<"u24c8">>,
     u24e3 |-> <<"u24c9">>, u24e4 |-> <<"u24ca">>, u24e5 |-> <<"u24cb">>,
     u24e6 |-> <<"u24cc">>, u24e7 |-> <<"u24cd">>, u24e8 |-> <<"u24ce">>,
     u24e9 |-> <<"u24cf">>, u2c30 |-> <<"u2c00">>, u2c31 |-> <<"u2c01">>,
     u2c32 |-> <<"u2c02">>, u2c33 |-> <<"u2c03">>, u2c34 |-> <<"u2c04">>,
     u2c35 |-> <<"u2c05">>, u2c36 |-> <<"u2c06">>, u2c37 |-> <<"u2c07">>,
     u2c38 |-> <<"u2c08">>, u2c39 |-> <<"u2c09">>, u2c3a |-> <<"u2c0a">>,
     u2c3b |-> <<"u2c0b">>, u2c3c |-> <<"u2c0c">>, u2c3d |-> <<"u2c0d">>,
     u2c3e |-> <<"u2c0e">>, u2c3f |-> <<"u2c0f">>, u2c40 |-> <<"u2c10">>,
     u2c41 |-> <<"u2c11">>, u2c42 |-> <<"u2c12">>, u2c43 |-> <<"u2c13">>,
     u2c44 |-> <<"u2c14">>, u2c45 |-> <<"u2c15">>, u2c46 |-> <<"u2c16">>,
     u2c47 |-> <<"u2c17">>, u2c48 |-> <<"u2c18">>, u2c49 |-> <<"u2c19">>,
     u2c4a |-> <<"u2c1a">>, u2c4b |-> <<"u2c1b">>, u2c4c |-> <<"u2c1c">>,
     u2c4d |-> <<"u2c1d">>, u2c4e |-> <<"u2c1e">>, u2c4f |-> <<"u2c1f">>,
     u2c50 |-> <<"u2c20">>, u2c51 |-> <<"u2c21">>, u2c52 |-> <<"u2c22">>,
     u2c53 |-> <<"u2c23">>, u2c54 |-> <<"u2c24">>, u2c55 |-> <<"u2c25">>,
     u2c56 |-> <<"u2c26">>, u2c57 |-> <<"u2c27">>, u2c58 |-> <<"u2c28">>,
     u2c59 |-> <<"u2c29">>, u2c5a |-> <<"u2c2a">>, u2c5b |-> <<"u2c2b">>,
     u2c5c |-> <<"u2c2c">>, u2c5d |-> <<"u2c2d">>, u2c5e |-> <<"u2c2e">>,
     u2c5f |-> <<"u2c2f">>, u2c61 |-> <<"u2c60">>, u2c65 |-> <<"u023a">>,
     u2c66 |-> <<"u023e">>, u2c68 |-> <<"u2c67">>, u2c6a |-> <<"u2c69">>,
     u2c6c |-> <<"u2c6b">>, u2c73 |-> <<"u2c72">>, u2c76 |-> <<"u2c75">>,
     u2c81 |-> <<"u2c80">>, u2c83 |-> <<"u2c82">>, u2c85 |-> <<"u2c84">>,
     u2c87 |-> <<"u2c86">>, u2c89 |-> <<"u2c88">>, u2c8b |-> <<"u2c8a">>,
     u2c8d |-> <<"u2c8c">>, u2c8f |-> <<"u2c8e">>, u2c91 |-> <<"u2c90">>,
     u2c93 |-> <<"u2c92">>, u2c95 |-> <<"u2c94">>, u2c97 |-> <<"u2c96">>,
     u2c99 |-> <<"u2c98">>, u2c9b |-> <<"u2c9a">>, u2c9d |-> <<"u2c9c">>,
     u2c9f |-> <<"u2c9e">>, u2ca1 |-> <<"u2ca0">>, u2ca3 |-> <<"u2ca2">>,
     u2ca5 |-> <<"u2ca4">>, u2ca7 |-> <<"u2ca6">>, u2ca9 |-> <<"u2ca8">>,
     u2cab |-> <<"u2caa">>, u2cad |-> <<"u2cac">>, u2caf |-> <<"u2cae">>,
     u2cb1 |-> <<"u2cb0">>, u2cb3 |-> <<"u2cb2">>, u2cb5 |-> <<"u2cb4">>,
     u2cb7 |-> <<"u2cb6">>, u2cb9 |-> <<"u2cb8">>, u2cbb |-> <<"u2cba">>,
     u2cbd |-> <<"u2cbc">>, u2cbf |-> <<"u2cbe">>, u2cc1 |-> <<"u2cc0">>,
     u2cc3 |-> <<"u2cc2">>, u2cc5 |-> <<"u2cc4">>, u2cc7 |-> <<"u2cc6">>,
     u2cc9 |-> <<"u2cc8">>, u2ccb |-> <<"u2cca">>, u2ccd |-> <<"u2ccc">>,
     u2ccf |-> <<"u2cce">>, u2cd1 |-> <<"u2cd0">>, u2cd3 |-> <<"u2cd2">>,
     u2cd5 |-> <<"u2cd4">>, u2cd7 |-> <<"u2cd6">>, u2cd9 |-> <<"u2cd8">>,
     u2cdb |-> <<"u2cda">>, u2cdd |-> <<"u2cdc">>, u2cdf |-> <<"u2cde">>,
     u2ce1 |-> <<"u2ce0">>, u2ce3 |-> <<"u2ce2">>, u2cec |-> <<"u2ceb">>,
     u2cee |-> <<"u2ced">>, u2cf3 |-> <<"u2cf2">>, u2d00 |-> <<"u10a0">>,
     u2d01 |-> <<"u10a1">>, u2d02 |-> <<"u10a2">>, u2d03 |-> <<"u10a3">>,
     u2d04 |-> <<"u10a4">>, u2d05 |-> <<"u10a5">>, u2d06 |-> <<"u10a6">>,
     u2d07 |-> <<"u10a7">>, u2d08 |-> <<"u10a8">>, u2d09 |-> <<"u10a9">>,
     u2d0a |-> <<"u10aa">>, u2d0b |-> <<"u10ab">>, u2d0c |-> <<"u10ac">>,
     u2d0d |-> <<"u10ad">>, u2d0e |-> <<"u10ae">>, u2d0f |-> <<"u10af">>,
     u2d10 |-> <<"u10b0">>, u2d11 |-> <<"u10b1">>, u2d12 |-> <<"u10b2">>,
     u2d13 |-> <<"u10b3">>, u2d14 |-> <<"u10b4">>, u2d15 |-> <<"u10b5">>,
     u2d16 |-> <<"u10b6">>, u2d17 |-> <<"u10b7">>, u2d18 |-> <<"u10b8">>,
     u2d19 |-> <<"u10b9">>, u2d1a |-> <<"u10ba">>, u2d1b |-> <<"u10bb">>,
     u2d1c |-> <<"u10bc">>, u2d1d |-> <<"u10bd">>, u2d1e |-> <<"u10be">>,
     u2d1f |-> <<"u10bf">>, u2d20 |-> <<"u10c0">>, u2d21 |-> <<"u10c1">>,
     u2d22 |-> <<"u10c2">>, u2d23 |-> <<"u10c3">>, u2d24 |-> <<"u10c4">>,
     u2d25 |-> <<"u10c5">>, u2d27 |-> <<"u10c7">>, u2d2d |-> <<"u10cd">>,
     ua641 |-> <<"ua640">>, ua643 |-> <<"ua642">>, ua645 |-> <<"ua644">>,
     ua647 |-> <<"ua646">>, ua649 |-> <<"ua648">>, ua64b |-> <<"ua64a">>,
     ua64d |-> <<"ua64c">>, ua64f |-> <<"ua64e">>, ua651 |-> <<"ua650">>,
     ua653 |-> <<"ua652">>, ua655 |-> <<"ua654">>, ua657 |-> <<"ua656">>,
     ua659 |-> <<"ua658">>, ua65b |-> <<"ua65a">>, ua65d |-> <<"ua65c">>,
     ua65f |-> <<"ua65e">>, ua661 |-> <<"ua660">>, ua663 |-> <<"ua662">>,
     ua665 |-> <<"ua664">>, ua667 |-> <<"ua666">>, ua669 |-> <<"ua668">>,
     ua66b |-> <<"ua66a">>, ua66d |-> <<"ua66c">>, ua681 |-> <<"ua680">>,
     ua683 |-> <<"ua682">>, ua685 |-> <<"ua684">>, ua687 |-> <<"ua686">>,
     ua689 |-> <<"ua688">>, ua68b |-> <<"ua68a">>, ua68d |-> <<"ua68c">>,
     ua68f |-> <<"ua68e">>, ua691 |-> <<"ua690">>, ua693 |-> <<"ua692">>,
     ua695 |-> <<"ua694">>, ua697 |-> <<"ua696">>, ua699 |-> <<"ua698">>,
     ua69b |-> <<"ua69a">>, ua723 |-> <<"ua722">>, ua725 |-> <<"ua724">>,
     ua727 |-> <<"ua726">>, ua729 |-> <<"ua728">>, ua72b |-> <<"ua72a">>,
     ua72d |-> <<"ua72c">>, ua72f |-> <<"ua72e">>, ua733 |-> <<"ua732">>,
     ua735 |-> <<"ua734">>, ua737 |-> <<"ua736">>, ua739 |-> <<"ua738">>,
     ua73b |-> <<"ua73a">>, ua73d |-> <<"ua73c">>, ua73f |-> <<"ua73e">>,
     ua741 |-> <<"ua740">>, ua743 |-> <<"ua742">>, ua745 |-> <<"ua744">>,
     ua747 |-> <<"ua746">>, ua749 |-> <<"ua748">>, ua74b |-> <<"ua74a">>,
     ua74d |-> <<"ua74c">>, ua74f |-> <<"ua74e">>, ua751 |-> <<"ua750">>,
     ua753 |-> <<"ua752">>, ua755 |-> <<"ua754">>, ua757 |-> <<"ua756">>,
     ua759 |-> <<"ua758">>, ua75b |-> <<"ua75a">>, ua75d |-> <<"ua75c">>,
     ua75f |-> <<"ua75e">>, ua761 |-> <<"ua760">>, ua763 |-> <<"ua762">>,
     ua765 |-> <<"ua764">>, ua767 |-> <<"ua766">>, ua769 |-> <<"ua768">>,
     ua76b |-> <<"ua76a">>, ua76d |-> <<"ua76c">>, ua76f |-> <<"ua76e">>,
     ua77a |-> <<"ua779">>, ua77c |-> <<"ua77b">>, ua77f |-> <<"ua77e">>,
     ua781 |-> <<"ua780">>, ua783 |-> <<"ua782">>, ua785 |-> <<"ua784">>,
     ua787 |-> <<"ua786">>, ua78c |-> <<"ua78b">>, ua791 |-> <<"ua790">>,
     ua793 |-> <<"ua792">>, ua794 |-> <<"ua7c4">>, ua797 |-> <<"ua796">>,
     ua799 |-> <<"ua798">>, ua79b |-> <<"ua79a">>, ua79d |-> <<"ua79c">>,
     ua79f |-> <<"ua79e">>, ua7a1 |-> <<"ua7a0">>, ua7a3 |-> <<"ua7a2">>,
     ua7a5 |-> <<"ua7a4">>, ua7a7 |-> <<"ua7a6">>, ua7a9 |-> <<"ua7a8">>,
     ua7b5 |-> <<"ua7b4">>, ua7b7 |-> <<"ua7b6">>, ua7b9 |-> <<"ua7b8">>,
     ua7bb |-> <<"ua7ba">>, ua7bd |-> <<"ua7bc">>, ua7bf |-> <<"ua7be">>,
     ua7c1 |-> <<"ua7c0">>, ua7c3 |-> <<"ua7c2">>, ua7c8 |-> <<"ua7c7">>,
     ua7ca |-> <<"ua7c9">>, ua7d1 |-> <<"ua7d0">>, ua7d7 |-> <<"ua7d6">>,
     ua7d9 |-> <<"ua7d8">>, ua7f6 |-> <<"ua7f5">>, uab53 |-> <<"ua7b3">>,
     uab70 |-> <<"u13a0">>, uab71 |-> <<"u13a1">>, uab72 |-> <<"u13a2">>,
     uab73 |-> <<"u13a3">>, uab74 |-> <<"u13a4">>, uab75 |-> <<"u13a5">>,
     uab76 |-> <<"u13a6">>, uab77 |-> <<"u13a7">>, uab78 |-> <<"u13a8">>,
     uab79 |-> <<"u13a9">>, uab7a |-> <<"u13aa">>, uab7b |-> <<"u13ab">>,
     uab7c |-> <<"u13ac">>, uab7d |-> <<"u13ad">>, uab7e |-> <<"u13ae">>,
     uab7f |-> <<"u13af">>, uab80 |-> <<"u13b0">>, uab81 |-> <<"u13b1">>,
     uab82 |-> <<"u13b2">>, uab83 |-> <<"u13b3">>, uab84 |-> <<"u13b4">>,
     uab85 |-> <<"u13b5">>, uab86 |-> <<"u13b6">>, uab87 |-> <<"u13b7">>,
     uab88 |-> <<"u13b8">>, uab89 |-> <<"u13b9">>, uab8a |-> <<"u13ba">>,
     uab8b |-> <<"u13bb">>, uab8c |-> <<"u13bc">>, uab8d |-> <<"u13bd">>,
     uab8e |-> <<"u13be">>, uab8f |-> <<"u13bf">>, uab90 |-> <<"u13c0">>,
     uab91 |-> <<"u13c1">>, uab92 |-> <<"u13c2">>, uab93 |-> <<"u13c3">>,
     uab94 |-> <<"u13c4">>, uab95 |-> <<"u13c5">>, uab96 |-> <<"u13c6">>,
     uab97 |-> <<"u13c7">>, uab98 |-> <<"u13c8">>, uab99 |-> <<"u13c9">>,
     uab9a |-> <<"u13ca">>, uab9b |-> <<"u13cb">>, uab9c |-> <<"u13cc">>,
     uab9d |-> <<"u13cd">>, uab9e |-> <<"u13ce">>, uab9f |-> <<"u13cf">>,
     uaba0 |-> <<"u13d0">>, uaba1 |-> <<"u13d1">>, uaba2 |-> <<"u13d2">>,
     uaba3 |-> <<"u13d3">>, uaba4 |-> <<"u13d4">>, uaba5 |-> <<"u13d5">>,
     uaba6 |-> <<"u13d6">>, uaba7 |-> <<"u13d7">>, uaba8 |-> <<"u13d8">>,
     uaba9 |-> <<"u13d9">>, uabaa |-> <<"u13da">>, uabab |-> <<"u13db">>,
     uabac |-> <<"u13dc">>, uabad |-> <<"u13dd">>, uabae |-> <<"u13de">>,
     uabaf |-> <<"u13df">>, uabb0 |-> <<"u13e0">>, uabb1 |-> <<"u13e1">>,
     uabb2 |-> <<"u13e2">>, uabb3 |-> <<"u13e3">>, uabb4 |-> <<"u13e4">>,
     uabb5 |-> <<"u13e5">>, uabb6 |-> <<"u13e6">>, uabb7 |-> <<"u13e7">>,
     uabb8 |-> <<"u13e8">>, uabb9 |-> <<"u13e9">>, uabba |-> <<"u13ea">>,
     uabbb |-> <<"u13eb">>, uabbc |-> <<"u13ec">>, uabbd |-> <<"u13ed">>,
     uabbe |-> <<"u13ee">>, uabbf |-> <<"u13ef">>, ufb00 |-> <<"F","F">>,
     ufb01 |-> <<"F","I">>, ufb02 |-> <<"F","L">>, ufb03 |-> <<"F","F","I">>,
     ufb04 |-> <<"F","F","L">>, ufb05 |-> <<"S","T">>, ufb06 |-> <<"S","T">>,
     ufb13 |-> <<"u0544","u0546">>, ufb14 |-> <<"u0544","u0535">>,
     ufb15 |-> <<"u0544","u053b">>, ufb16 |-> <<"u054e","u0546">>,
     ufb17 |-> <<"u0544","u053d">>, uff41 |-> <<"uff21">>,
     uff42 |-> <<"uff22">>, uff43 |-> <<"uff23">>, uff44 |-> <<"uff24">>,
     uff45 |-> <<"uff25">>, uff46 |-> <<"uff26">>, uff47 |-> <<"uff27">>,
     uff48 |-> <<"uff28">>, uff49 |-> <<"uff29">>, uff4a |-> <<"uff2a">>,
     uff4b |-> <<"uff2b">>, uff4c |-> <<"uff2c">>, uff4d |-> <<"uff2d">>,
     uff4e |-> <<"uff2e">>, uff4f |-> <<"uff2f">>, uff50 |-> <<"uff30">>,
     uff51 |-> <<"uff31">>, uff52 |-> <<"uff32">>, uff53 |-> <<"uff33">>,
     uff54 |-> <<"uff34">>, uff55 |-> <<"uff35">>, uff56 |-> <<"uff36">>,
     uff57 |-> <<"uff37">>, uff58 |-> <<"uff38">>, uff59 |-> <<"uff39">>,
     uff5a |-> <<"uff3a">>, u10428 |-> <<"u10400">>, u10429 |-> <<"u10401">>,
     u1042a |-> <<"u10402">>, u1042b |-> <<"u10403">>,
     u1042c |-> <<"u10404">>, u1042d |-> <<"u10405">>,
     u1042e |-> <<"u10406">>, u1042f |-> <<"u10407">>,
     u10430 |-> <<"u10408">>, u10431 |-> <<"u10409">>,
     u10432 |-> <<"u1040a">>, u10433 |-> <<"u1040b">>,
     u10434 |-> <<"u1040c">>, u10435 |-> <<"u1040d">>,
     u10436 |-> <<"u1040e">>, u10437 |-> <<"u1040f">>,
     u10438 |-> <<"u10410">>, u10439 |-> <<"u10411">>,
     u1043a |-> <<"u10412">>, u1043b |-> <<"u10413">>,
     u1043c |-> <<"u10414">>, u1043d |-> <<"u10415">>,
     u1043e |-> <<"u10416">>, u1043f |-> <<"u10417">>,
     u10440 |-> <<"u10418">>, u10441 |-> <<"u10419">>,
     u10442 |-> <<"u1041a">>, u10443 |-> <<"u1041b">>,
     u10444 |-> <<"u1041c">>, u10445 |-> <<"u1041d">>,
     u10446 |-> <<"u1041e">>, u10447 |-> <<"u1041f">>,
     u10448 |-> <<"u10420">>, u10449 |-> <<"u10421">>,
     u1044a |-> <<"u10422">>, u1044b |-> <<"u10423">>,
     u1044c |-> <<"u10424">>, u1044d |-> <<"u10425">>,
     u1044e |-> <<"u10426">>, u1044f |-> <<"u10427">>,
     u104d8 |-> <<"u104b0">>, u104d9 |-> <<"u104b1">>,
     u104da |-> <<"u104b2">>, u104db |-> <<"u104b3">>,
     u104dc |-> <<"u104b4">>, u104dd |-> <<"u104b5">>,
     u104de |-> <<"u104b6">>, u104df |-> <<"u104b7">>,
     u104e0 |-> <<"u104b8">>, u104e1 |-> <<"u104b9">>,
     u104e2 |-> <<"u104ba">>, u104e3 |-> <<"u104bb">>,
     u104e4 |-> <<"u104bc">>, u104e5 |-> <<"u104bd">>,
     u104e6 |-> <<"u104be">>, u104e7 |-> <<"u104bf">>,
     u104e8 |-> <<"u104c0">>, u104e9 |-> <<"u104c1">>,
     u104ea |-> <<"u104c2">>, u104eb |-> <<"u104c3">>,
     u104ec |-> <<"u104c4">>, u104ed |-> <<"u104c5">>,
     u104ee |-> <<"u104c6">>, u104ef |-> <<"u104c7">>,
     u104f0 |-> <<"u104c8">>, u104f1 |-> <<"u104c9">>,
     u104f2 |-> <<"u104ca">>, u104f3 |-> <<"u104cb">>,
     u104f4 |-> <<"u104cc">>, u104f5 |-> <<"u104cd">>,
     u104f6 |-> <<"u104ce">>, u104f7 |-> <<"u104cf">>,
     u104f8 |-> <<"u104d0">>, u104f9 |-> <<"u104d1">>,
     u104fa |-> <<"u104d2">>, u104fb |-> <<"u104d3">>,
     u10597 |-> <<"u10570">>, u10598 |-> <<"u10571">>,
     u10599 |-> <<"u10572">>, u1059a |-> <<"u10573">>,
     u1059b |-> <<"u10574">>, u1059c |-> <<"u10575">>,
     u1059d |-> <<"u10576">>, u1059e |-> <<"u10577">>,
     u1059f |-> <<"u10578">>, u105a0 |-> <<"u10579">>,
     u105a1 |-> <<"u1057a">>, u105a3 |-> <<"u1057c">>,
     u105a4 |-> <<"u1057d">>, u105a5 |-> <<"u1057e">>,
     u105a6 |-> <<"u1057f">>, u105a7 |-> <<"u10580">>,
     u105a8 |-> <<"u10581">>, u105a9 |-> <<"u10582">>,
     u105aa |-> <<"u10583">>, u105ab |-> <<"u10584">>,
     u105ac |-> <<"u10585">>, u105ad |-> <<"u10586">>,
     u105ae |-> <<"u10587">>, u105af |-> <<"u10588">>,
     u105b0 |-> <<"u10589">>, u105b1 |-> <<"u1058a">>,
     u105b3 |-> <<"u1058c">>, u105b4 |-> <<"u1058d">>,
     u105b5 |-> <<"u1058e">>, u105b6 |-> <<"u1058f">>,
     u105b7 |-> <<"u10590">>, u105b8 |-> <<"u10591">>,
     u105b9 |-> <<"u10592">>, u105bb |-> <<"u10594">>,
     u105bc |-> <<"u10595">>, u10cc0 |-> <<"u10c80">>,
     u10cc1 |-> <<"u10c81">>, u10cc2 |-> <<"u10c82">>,
     u10cc3 |-> <<"u10c83">>, u10cc4 |-> <<"u10c84">>,
     u10cc5 |-> <<"u10c85">>, u10cc6 |-> <<"u10c86">>,
     u10cc7 |-> <<"u10c87">>, u10cc8 |-> <<"u10c88">>,
     u10cc9 |-> <<"u10c89">>, u10cca |-> <<"u10c8a">>,
     u10ccb |-> <<"u10c8b">>, u10ccc |-> <<"u10c8c">>,
     u10ccd |-> <<"u10c8d">>, u10cce |-> <<"u10c8e">>,
     u10ccf |-> <<"u10c8f">>, u10cd0 |-> <<"u10c90">>,
     u10cd1 |-> <<"u10c91">>, u10cd2 |-> <<"u10c92">>,
     u10cd3 |-> <<"u10c93">>, u10cd4 |-> <<"u10c94">>,
     u10cd5 |-> <<"u10c95">>, u10cd6 |-> <<"u10c96">>,
     u10cd7 |-> <<"u10c97">>, u10cd8 |-> <<"u10c98">>,
     u10cd9 |-> <<"u10c99">>, u10cda |-> <<"u10c9a">>,
     u10cdb |-> <<"u10c9b">>, u10cdc |-> <<"u10c9c">>,
     u10cdd |-> <<"u10c9d">>, u10cde |-> <<"u10c9e">>,
     u10cdf |-> <<"u10c9f">>, u10ce0 |-> <<"u10ca0">>,
     u10ce1 |-> <<"u10ca1">>, u10ce2 |-> <<"u10ca2">>,
     u10ce3 |-> <<"u10ca3">>, u10ce4 |-> <<"u10ca4">>,
     u10ce5 |-> <<"u10ca5">>, u10ce6 |-> <<"u10ca6">>,
     u10ce7 |-> <<"u10ca7">>, u10ce8 |-> <<"u10ca8">>,
     u10ce9 |-> <<"u10ca9">>, u10cea |-> <<"u10caa">>,
     u10ceb |-> <<"u10cab">>, u10cec |-> <<"u10cac">>,
     u10ced |-> <<"u10cad">>, u10cee |-> <<"u10cae">>,
     u10cef |-> <<"u10caf">>, u10cf0 |-> <<"u10cb0">>,
     u10cf1 |-> <<"u10cb1">>, u10cf2 |-> <<"u10cb2">>,
     u118c0 |-> <<"u118a0">>, u118c1 |-> <<"u118a1">>,
     u118c2 |-> <<"u118a2">>, u118c3 |-> <<"u118a3">>,
     u118c4 |-> <<"u118a4">>, u118c5 |-> <<"u118a5">>,
     u118c6 |-> <<"u118a6">>, u118c7 |-> <<"u118a7">>,
     u118c8 |-> <<"u118a8">>, u118c9 |-> <<"u118a9">>,
     u118ca |-> <<"u118aa">>, u118cb |-> <<"u118ab">>,
     u118cc |-> <<"u118ac">>, u118cd |-> <<"u118ad">>,
     u118ce |-> <<"u118ae">>, u118cf |-> <<"u118af">>,
     u118d0 |-> <<"u118b0">>, u118d1 |-> <<"u118b1">>,
     u118d2 |-> <<"u118b2">>, u118d3 |-> <<"u118b3">>,
     u118d4 |-> <<"u118b4">>, u118d5 |-> <<"u118b5">>,
     u118d6 |-> <<"u118b6">>, u118d7 |-> <<"u118b7">>,
     u118d8 |-> <<"u118b8">>, u118d9 |-> <<"u118b9">>,
     u118da |-> <<"u118ba">>, u118db |-> <<"u118bb">>,
     u118dc |-> <<"u118bc">>, u118dd |-> <<"u118bd">>,
     u118de |-> <<"u118be">>, u118df |-> <<"u118bf">>,
     u16e60 |-> <<"u16e40">>, u16e61 |-> <<"u16e41">>,
     u16e62 |-> <<"u16e42">>, u16e63 |-> <<"u16e43">>,
     u16e64 |-> <<"u16e44">>, u16e65 |-> <<"u16e45">>,
     u16e66 |-> <<"u16e46">>, u16e67 |-> <<"u16e47">>,
     u16e68 |-> <<"u16e48">>, u16e69 |-> <<"u16e49">>,
     u16e6a |-> <<"u16e4a">>, u16e6b |-> <<"u16e4b">>,
     u16e6c |-> <<"u16e4c">>, u16e6d |-> <<"u16e4d">>,
     u16e6e |-> <<"u16e4e">>, u16e6f |-> <<"u16e4f">>,
     u16e70 |-> <<"u16e50">>, u16e71 |-> <<"u16e51">>,
     u16e72 |-> <<"u16e52">>, u16e73 |-> <<"u16e53">>,
     u16e74 |-> <<"u16e54">>, u16e75 |-> <<"u16e55">>,
     u16e76 |-> <<"u16e56">>, u16e77 |-> <<"u16e57">>,
     u16e78 |-> <<"u16e58">>, u16e79 |-> <<"u16e59">>,
     u16e7a |-> <<"u16e5a">>, u16e7b |-> <<"u16e5b">>,
     u16e7c |-> <<"u16e5c">>, u16e7d |-> <<"u16e5d">>,
     u16e7e |-> <<"u16e5e">>, u16e7f |-> <<"u16e5f">>,
     u1e922 |-> <<"u1e900">>, u1e923 |-> <<"u1e901">>,
     u1e924 |-> <<"u1e902">>, u1e925 |-> <<"u1e903">>,
     u1e926 |-> <<"u1e904">>, u1e927 |-> <<"u1e905">>,
     u1e928 |-> <<"u1e906">>, u1e929 |-> <<"u1e907">>,
     u1e92a |-> <<"u1e908">>, u1e92b |-> <<"u1e909">>,
     u1e92c |-> <<"u1e90a">>, u1e92d |-> <<"u1e90b">>,
     u1e92e |-> <<"u1e90c">>, u1e92f |-> <<"u1e90d">>,
     u1e930 |-> <<"u1e90e">>, u1e931 |-> <<"u1e90f">>,
     u1e932 |-> <<"u1e910">>, u1e933 |-> <<"u1e911">>,
     u1e934 |-> <<"u1e912">>, u1e935 |-> <<"u1e913">>,
     u1e936 |-> <<"u1e914">>, u1e937 |-> <<"u1e915">>,
     u1e938 |-> <<"u1e916">>, u1e939 |-> <<"u1e917">>,
     u1e93a |-> <<"u1e918">>, u1e93b |-> <<"u1e919">>,
     u1e93c |-> <<"u1e91a">>, u1e93d |-> <<"u1e91b">>,
     u1e93e |-> <<"u1e91c">>, u1e93f |-> <<"u1e91d">>,
     u1e940 |-> <<"u1e91e">>, u1e941 |-> <<"u1e91f">>,
     u1e942 |-> <<"u1e920">>, u1e943 |-> <<"u1e921">>]

\* the characters str.lower() changes, each with its image
LowerMap ==
    [A |-> <<"a">>, B |-> <<"b">>, C |-> <<"c">>, D |-> <<"d">>,
     E |-> <<"e">>, F |-> <<"f">>, G |-> <<"g">>, H |-> <<"h">>,
     I |-> <<"i">>, J |-> <<"j">>, K |-> <<"k">>, L |-> <<"l">>,
     M |-> <<"m">>, N |-> <<"n">>, O |-> <<"o">>, P |-> <<"p">>,
     Q |-> <<"q">>, R |-> <<"r">>, S |-> <<"s">>, T |-> <<"t">>,
     U |-> <<"u">>, V |-> <<"v">>, W |-> <<"w">>, X |-> <<"x">>,
     Y |-> <<"y">>, Z |-> <<"z">>, u00c0 |-> <<"u00e0">>,
     u00c1 |-> <<"u00e1">>, u00c2 |-> <<"u00e2">>, u00c3 |-> <<"u00e3">>,
     u00c4 |-> <<"u00e4">>, u00c5 |-> <<"u00e5">>, u00c6 |-> <<"u00e6">>,
     u00c7 |-> <<"u00e7">>, u00c8 |-> <<"u00e8">>, u00c9 |-> <<"u00e9">>,
     u00ca |-> <<"u00ea">>, u00cb |-> <<"u00eb">>, u00cc |-> <<"u00ec">>,
     u00cd |-> <<"u00ed">>, u00ce |-> <<"u00ee">>, u00cf |-> <<"u00ef">>,
     u00d0 |-> <<"u00f0">>, u00d1 |-> <<"u00f1">>, u00d2 |-> <<"u00f2">>,
     u00d3 |-> <<"u00f3">>, u00d4 |-> <<"u00f4">>, u00d5 |-> <<"u00f5">>,
     u00d6 |-> <<"u00f6">>, u00d8 |-> <<"u00f8">>, u00d9 |-> <<"u00f9">>,
     u00da |-> <<"u00fa">>, u00db |-> <<"u00fb">>, u00dc |-> <<"u00fc">>,
     u00dd |-> <<"u00fd">>, u00de |-> <<"u00fe">>, u0100 |-> <<"u0101">>,
     u0102 |-> <<"u0103">>, u0104 |-> <<"u0105">>, u0106 |-> <<"u0107">>,
     u0108 |-> <<"u0109">>, u010a |-> <<"u010b">>, u010c |-> <<"u010d">>,
     u010e |-> <<"u010f">>, u0110 |-> <<"u0111">>, u0112 |-> <<"u0113">>,
     u0114 |-> <<"u0115">>, u0116 |-> <<"u0117">>, u0118 |-> <<"u0119">>,
     u011a |-> <<"u011b">>, u011c |-> <<"u011d">>, u011e |-> <<"u011f">>,
     u0120 |-> <<"u0121">>, u0122 |-> <<"u0123">>, u0124 |-> <<"u0125">>,
     u0126 |-> <<"u0127">>, u0128 |-> <<"u0129">>, u012a |-> <<"u012b">>,
     u012c |-> <<"u012d">>, u012e |-> <<"u012f">>, u0130 |-> <<"i","u0307">>,
     u0132 |-> <<"u0133">>, u0134 |-> <<"u0135">>, u0136 |-> <<"u0137">>,
     u0139 |-> <<"u013a">>, u013b |-> <<"u013c">>, u013d |-> <<"u013e">>,
     u013f |-> <<"u0140">>, u0141 |-> <<"u0142">>, u0143 |-> <<"u0144">>,
     u0145 |-> <<"u0146">>, u0147 |-> <<"u0148">>, u014a |-> <<"u014b">>,
     u014c |-> <<"u014d">>, u014e |-> <<"u014f">>, u0150 |-> <<"u0151">>,
     u0152 |-> <<"u0153">>, u0154 |-> <<"u0155">>, u0156 |-> <<"u0157">>,
     u0158 |-> <<"u0159">>, u015a |-> <<"u015b">>, u015c |-> <<"u015d">>,
     u015e |-> <<"u015f">>, u0160 |-> <<"u0161">>, u0162 |-> <<"u0163">>,
     u0164 |-> <<"u0165">>, u0166 |-> <<"u0167">>, u0168 |-> <<"u0169">>,
     u016a |-> <<"u016b">>, u016c |-> <<"u016d">>, u016e |-> <<"u016f">>,
     u0170 |-> <<"u0171">>, u0172 |-> <<"u0173">>, u0174 |-> <<"u0175">>,
     u0176 |-> <<"u0177">>, u0178 |-> <<"u00ff">>, u0179 |-> <<"u017a">>,
     u017b |-> <<"u017c">>, u017d |-> <<"u017e">>, u0181 |-> <<"u0253">>,
     u0182 |-> <<"u0183">>, u0184 |-> <<"u0185">>, u0186 |-> <<"u0254">>,
     u0187 |-> <<"u0188">>, u0189 |-> <<"u0256">>, u018a |-> <<"u0257">>,
     u018b |-> <<"u018c">>, u018e |-> <<"u01dd">>, u018f |-> <<"u0259">>,
     u0190 |-> <<"u025b">>, u0191 |-> <<"u0192">>, u0193 |-> <<"u0260">>,
     u0194 |-> <<"u0263">>, u0196 |-> <<"u0269">>, u0197 |-> <<"u0268">>,
     u0198 |-> <<"u0199">>, u019c |-> <<"u026f">>, u019d |-> <<"u0272">>,
     u019f |-> <<"u0275">>, u01a0 |-> <<"u01a1">>, u01a2 |-> <<"u01a3">>,
     u01a4 |-> <<"u01a5">>, u01a6 |-> <<"u0280">>, u01a7 |-> <<"u01a8">>,
     u01a9 |-> <<"u0283">>, u01ac |-> <<"u01ad">>, u01ae |-> <<"u0288">>,
     u01af |-> <<"u01b0">>, u01b1 |-> <<"u028a">>, u01b2 |-> <<"u028b">>,
     u01b3 |-> <<"u01b4">>, u01b5 |-> <<"u01b6">>, u01b7 |-> <<"u0292">>,
     u01b8 |-> <<"u01b9">>, u01bc |-> <<"u01bd">>, u01c4 |-> <<"u01c6">>,
     u01c5 |-> <<"u01c6">>, u01c7 |-> <<"u01c9">>, u01c8 |-> <<"u01c9">>,
     u01ca |-> <<"u01cc">>, u01cb |-> <<"u01cc">>, u01cd |-> <<"u01ce">>,
     u01cf |-> <<"u01d0">>, u01d1 |-> <<"u01d2">>, u01d3 |-> <<"u01d4">>,
     u01d5 |-> <<"u01d6">>, u01d7 |-> <<"u01d8">>, u01d9 |-> <<"u01da">>,
     u01db |-> <<"u01dc">>, u01de |-> <<"u01df">>, u01e0 |-> <<"u01e1">>,
     u01e2 |-> <<"u01e3">>, u01e4 |-> <<"u01e5">>, u01e6 |-> <<"u01e7">>,
     u01e8 |-> <<"u01e9">>, u01ea |-> <<"u01eb">>, u01ec |-> <<"u01ed">>,
     u01ee |-> <<"u01ef">>, u01f1 |-> <<"u01f3">>, u01f2 |-> <<"u01f3">>,
     u01f4 |-> <<"u01f5">>, u01f6 |-> <<"u0195">>, u01f7 |-> <<"u01bf">>,
     u01f8 |-> <<"u01f9">>, u01fa |-> <<"u01fb">>, u01fc |-> <<"u01fd">>,
     u01fe |-> <<"u01ff">>, u0200 |-> <<"u0201">>, u0202 |-> <<"u0203">>,
     u0204 |-> <<"u0205">>, u0206 |-> <<"u0207">>, u0208 |-> <<"u0209">>,
     u020a |-> <<"u020b">>, u020c |-> <<"u020d">>, u020e |-> <<"u020f">>,
     u0210 |-> <<"u0211">>, u0212 |-> <<"u0213">>, u0214 |-> <<"u0215">>,
     u0216 |-> <<"u0217">>, u0218 |-> <<"u0219">>, u021a |-> <<"u021b">>,
     u021c |-> <<"u021d">>, u021e |-> <<"u021f">>, u0220 |-> <<"u019e">>,
     u0222 |-> <<"u0223">>, u0224 |-> <<"u0225">>, u0226 |-> <<"u0227">>,
     u0228 |-> <<"u0229">>, u022a |-> <<"u022b">>, u022c |-> <<"u022d">>,
     u022e |-> <<"u022f">>, u0230 |-> <<"u0231">>, u0232 |-> <<"u0233">>,
     u023a |-> <<"u2c65">>, u023b |-> <<"u023c">>, u023d |-> <<"u019a">>,
     u023e |-> <<"u2c66">>, u0241 |-> <<"u0242">>, u0243 |-> <<"u0180">>,
     u0244 |-> <<"u0289">>, u0245 |-> <<"u028c">>, u0246 |-> <<"u0247">>,
     u0248 |-> <<"u0249">>, u024a |-> <<"u024b">>, u024c |-> <<"u024d">>,
     u024e |-> <<"u024f">>, u0370 |-> <<"u0371">>, u0372 |-> <<"u0373">>,
     u0376 |-> <<"u0377">>, u037f |-> <<"u03f3">>, u0386 |-> <<"u03ac">>,
     u0388 |-> <<"u03ad">>, u0389 |-> <<"u03ae">>, u038a |-> <<"u03af">>,
     u038c |-> <<"u03cc">>, u038e |-> <<"u03cd">>, u038f |-> <<"u03ce">>,
     u0391 |-> <<"u03b1">>, u0392 |-> <<"u03b2">>, u0393 |-> <<"u03b3">>,
     u0394 |-> <<"u03b4">>, u0395 |-> <<"u03b5">>, u0396 |-> <<"u03b6">>,
     u0397 |-> <<"u03b7">>, u0398 |-> <<"u03b8">>, u0399 |-> <<"u03b9">>,
     u039a |-> <<"u03ba">>, u039b |-> <<"u03bb">>, u039c |-> <<"u03bc">>,
     u039d |-> <<"u03bd">>, u039e |-> <<"u03be">>, u039f |-> <<"u03bf">>,
     u03a0 |-> <<"u03c0">>, u03a1 |-> <<"u03c1">>, u03a3 |-> <<"u03c3">>,
     u03a4 |-> <<"u03c4">>, u03a5 |-> <<"u03c5">>, u03a6 |-> <<"u03c6">>,
     u03a7 |-> <<"u03c7">>, u03a8 |-> <<"u03c8">>, u03a9 |-> <<"u03c9">>,
     u03aa |-> <<"u03ca">>, u03ab |-> <<"u03cb">>, u03cf |-> <<"u03d7">>,
     u03d8 |-> <<"u03d9">>, u03da |-> <<"u03db">>, u03dc |-> <<"u03dd">>,
     u03de |-> <<"u03df">>, u03e0 |-> <<"u03e1">>, u03e2 |-> <<"u03e3">>,
     u03e4 |-> <<"u03e5">>, u03e6 |-> <<"u03e7">>, u03e8 |-> <<"u03e9">>,
     u03ea |-> <<"u03eb">>, u03ec |-> <<"u03ed">>, u03ee |-> <<"u03ef">>,
     u03f4 |-> <<"u03b8">>, u03f7 |-> <<"u03f8">>, u03f9 |-> <<"u03f2">>,
     u03fa |-> <<"u03fb">>, u03fd |-> <<"u037b">>, u03fe |-> <<"u037c">>,
     u03ff |-> <<"u037d">>, u0400 |-> <<"u0450">>, u0401 |-> <<"u0451">>,
     u0402 |-> <<"u0452">>, u0403 |-> <<"u0453">>, u0404 |-> <<"u0454">>,
     u0405 |-> <<"u0455">>, u0406 |-> <<"u0456">>, u0407 |-> <<"u0457">>,
     u0408 |-> <<"u0458">>, u0409 |-> <<"u0459">>, u040a |-> <<"u045a">>,
     u040b |-> <<"u045b">>, u040c |-> <<"u045c">>, u040d |-> <<"u045d">>,
     u040e |-> <<"u045e">>, u040f |-> <<"u045f">>, u0410 |-> <<"u0430">>,
     u0411 |-> <<"u0431">>, u0412 |-> <<"u0432">>, u0413 |-> <<"u0433">>,
     u0414 |-> <<"u0434">>, u0415 |-> <<"u0435">>, u0416 |-> <<"u0436">>,
     u0417 |-> <<"u0437">>, u0418 |-> <<"u0438">>, u0419 |-> <<"u0439">>,
     u041a |-> <<"u043a">>, u041b |-> <<"u043b">>, u041c |-> <<"u043c">>,
     u041d |-> <<"u043d">>, u041e |-> <<"u043e">>, u041f |-> <<"u043f">>,
     u0420 |-> <<"u0440">>, u0421 |-> <<"u0441">>, u0422 |-> <<"u0442">>,
     u0423 |-> <<"u0443">>, u0424 |-> <<"u0444">>, u0425 |-> <<"u0445">>,
     u0426 |-> <<"u0446">>, u0427 |-> <<"u0447">>, u0428 |-> <<"u0448">>,
     u0429 |-> <<"u0449">>, u042a |-> <<"u044a">>, u042b |-> <<"u044b">>,
     u042c |-> <<"u044c">>, u042d |-> <<"u044d">>, u042e |-> <<"u044e">>,
     u042f |-> <<"u044f">>, u0460 |-> <<"u0461">>, u0462 |-> <<"u0463">>,
     u0464 |-> <<"u0465">>, u0466 |-> <<"u0467">>, u0468 |-> <<"u0469">>,
     u046a |-> <<"u046b">>, u046c |-> <<"u046d">>, u046e |-> <<"u046f">>,
     u0470 |-> <<"u0471">>, u0472 |-> <<"u0473">>, u0474 |-> <<"u0475">>,
     u0476 |-> <<"u0477">>, u0478 |-> <<"u0479">>, u047a |-> <<"u047b">>,
     u047c |-> <<"u047d">>, u047e |-> <<"u047f">>, u0480 |-> <<"u0481">>,
     u048a |-> <<"u048b">>, u048c |-> <<"u048d">>, u048e |-> <<"u048f">>,
     u0490 |-> <<"u0491">>, u0492 |-> <<"u0493">>, u0494 |-> <<"u0495">>,
     u0496 |-> <<"u0497">>, u0498 |-> <<"u0499">>, u049a |-> <<"u049b">>,
     u049c |-> <<"u049d">>, u049e |-> <<"u049f">>, u04a0 |-> <<"u04a1">>,
     u04a2 |-> <<"u04a3">>, u04a4 |-> <<"u04a5">>, u04a6 |-> <<"u04a7">>,
     u04a8 |-> <<"u04a9">>, u04aa |-> <<"u04ab">>, u04ac |-> <<"u04ad">>,
     u04ae |-> <<"u04af">>, u04b0 |-> <<"u04b1">>, u04b2 |-> <<"u04b3">>,
     u04b4 |-> <<"u04b5">>, u04b6 |-> <<"u04b7">>, u04b8 |-> <<"u04b9">>,
     u04ba |-> <<"u04bb">>, u04bc |-> <<"u04bd">>, u04be |-> <<"u04bf">>,
     u04c0 |-> <<"u04cf">>, u04c1 |-> <<"u04c2">>, u04c3 |-> <<"u04c4">>,
     u04c5 |-> <<"u04c6">>, u04c7 |-> <<"u04c8">>, u04c9 |-> <<"u04ca">>,
     u04cb |-> <<"u04cc">>, u04cd |-> <<"u04ce">>, u04d0 |-> <<"u04d1">>,
     u04d2 |-> <<"u04d3">>, u04d4 |-> <<"u04d5">>, u04d6 |-> <<"u04d7">>,
     u04d8 |-> <<"u04d9">>, u04da |-> <<"u04db">>, u04dc |-> <<"u04dd">>,
     u04de |-> <<"u04df">>, u04e0 |-> <<"u04e1">>, u04e2 |-> <<"u04e3">>,
     u04e4 |-> <<"u04e5">>, u04e6 |-> <<"u04e7">>, u04e8 |-> <<"u04e9">>,
     u04ea |-> <<"u04eb">>, u04ec |-> <<"u04ed">>, u04ee |-> <<"u04ef">>,
     u04f0 |-> <<"u04f1">>, u04f2 |-> <<"u04f3">>, u04f4 |-> <<"u04f5">>,
     u04f6 |-> <<"u04f7">>, u04f8 |-> <<"u04f9">>, u04fa |-> <<"u04fb">>,
     u04fc |-> <<"u04fd">>, u04fe |-> <<"u04ff">>, u0500 |-> <<"u0501">>,
     u0502 |-> <<"u0503">>, u0504 |-> <<"u0505">>, u0506 |-> <<"u0507">>,
     u0508 |-> <<"u0509">>, u050a |-> <<"u050b">>, u050c |-> <<"u050d">>,
     u050e |-> <<"u050f">>, u0510 |-> <<"u0511">>, u0512 |-> <<"u0513">>,
     u0514 |-> <<"u0515">>, u0516 |-> <<"u0517">>, u0518 |-> <<"u0519">>,
     u051a |-> <<"u051b">>, u051c |-> <<"u051d">>, u051e |-> <<"u051f">>,
     u0520 |-> <<"u0521">>, u0522 |-> <<"u0523">>, u0524 |-> <<"u0525">>,
     u0526 |-> <<"u0527">>, u0528 |-> <<"u0529">>, u052a |-> <<"u052b">>,
     u052c |-> <<"u052d">>, u052e |-> <<"u052f">>, u0531 |-> <<"u0561">>,
     u0532 |-> <<"u0562">>, u0533 |-> <<"u0563">>, u0534 |-> <<"u0564">>,
     u0535 |-> <<"u0565">>, u0536 |-> <<"u0566">>, u0537 |-> <<"u0567">>,
     u0538 |-> <<"u0568">>, u0539 |-> <<"u0569">>, u053a |-> <<"u056a">>,
     u053b |-> <<"u056b">>, u053c |-> <<"u056c">>, u053d |-> <<"u056d">>,
     u053e |-> <<"u056e">>, u053f |-> <<"u056f">>, u0540 |-> <<"u0570">>,
     u0541 |-> <<"u0571">>, u0542 |-> <<"u0572">>, u0543 |-> <<"u0573">>,
     u0544 |-> <<"u0574">>, u0545 |-> <<"u0575">>, u0546 |-> <<"u0576">>,
     u0547 |-> <<"u0577">>, u0548 |-> <<"u0578">>, u0549 |-> <<"u0579">>,
     u054a |-> <<"u057a">>, u054b |-> <<"u057b">>, u054c |-> <<"u057c">>,
     u054d |-> <<"u057d">>, u054e |-> <<"u057e">>, u054f |-> <<"u057f">>,
     u0550 |-> <<"u0580">>, u0551 |-> <<"u0581">>, u0552 |-> <<"u0582">>,
     u0553 |-> <<"u0583">>, u0554 |-> <<"u0584">>, u0555 |-> <<"u0585">>,
     u0556 |-> <<"u0586">>, u10a0 |-> <<"u2d00">>, u10a1 |-> <<"u2d01">>,
     u10a2 |-> <<"u2d02">>, u10a3 |-> <<"u2d03">>, u10a4 |-> <<"u2d04">>,
     u10a5 |-> <<"u2d05">>, u10a6 |-> <<"u2d06">>, u10a7 |-> <<"u2d07">>,
     u10a8 |-> <<"u2d08">>, u10a9 |-> <<"u2d09">>, u10aa |-> <<"u2d0a">>,
     u10ab |-> <<"u2d0b">>, u10ac |-> <<"u2d0c">>, u10ad |-> <<"u2d0d">>,
     u10ae |-> <<"u2d0e">>, u10af |-> <<"u2d0f">>, u10b0 |-> <<"u2d10">>,
     u10b1 |-> <<"u2d11">>, u10b2 |-> <<"u2d12">>, u10b3 |-> <<"u2d13">>,
     u10b4 |-> <<"u2d14">>, u10b5 |-> <<"u2d15">>, u10b6 |-> <<"u2d16">>,
     u10b7 |-> <<"u2d17">>, u10b8 |-> <<"u2d18">>, u10b9 |-> <<"u2d19">>,
     u10ba |-> <<"u2d1a">>, u10bb |-> <<"u2d1b">>, u10bc |-> <<"u2d1c">>,
     u10bd |-> <<"u2d1d">>, u10be |-> <<"u2d1e">>, u10bf |-> <<"u2d1f">>,
     u10c0 |-> <<"u2d20">>, u10c1 |-> <<"u2d21">>, u10c2 |-> <<"u2d22">>,
     u10c3 |-> <<"u2d23">>, u10c4 |-> <<"u2d24">>, u10c5 |-> <<"u2d25">>,
     u10c7 |-> <<"u2d27">>, u10cd |-> <<"u2d2d">>, u13a0 |-> <<"uab70">>,
     u13a1 |-> <<"uab71">>, u13a2 |-> <<"uab72">>, u13a3 |-> <<"uab73">>,
     u13a4 |-> <<"uab74">>, u13a5 |-> <<"uab75">>, u13a6 |-> <<"uab76">>,
     u13a7 |-> <<"uab77">>, u13a8 |-> <<"uab78">>, u13a9 |-> <<"uab79">>,
     u13aa |-> <<"uab7a">>, u13ab |-> <<"uab7b">>, u13ac |-> <<"uab7c">>,
     u13ad |-> <<"uab7d">>, u13ae |-> <<"uab7e">>, u13af |-> <<"uab7f">>,
     u13b0 |-> <<"uab80">>, u13b1 |-> <<"uab81">>, u13b2 |-> <<"uab82">>,
     u13b3 |-> <<"uab83">>, u13b4 |-> <<"uab84">>, u13b5 |-> <<"uab85">>,
     u13b6 |-> <<"uab86">>, u13b7 |-> <<"uab87">>, u13b8 |-> <<"uab88">>,
     u13b9 |-> <<"uab89">>, u13ba |-> <<"uab8a">>, u13bb |-> <<"uab8b">>,
     u13bc |-> <<"uab8c">>, u13bd |-> <<"uab8d">>, u13be |-> <<"uab8e">>,
     u13bf |-> <<"uab8f">>, u13c0 |-> <<"uab90">>, u13c1 |-> <<"uab91">>,
     u13c2 |-> <<"uab92">>, u13c3 |-> <<"uab93">>, u13c4 |-> <<"uab94">>,
     u13c5 |-> <<"uab95">>, u13c6 |-> <<"uab96">>, u13c7 |-> <<"uab97">>,
     u13c8 |-> <<"uab98">>, u13c9 |-> <<"uab99">>, u13ca |-> <<"uab9a">>,
     u13cb |-> <<"uab9b">>, u13cc |-> <<"uab9c">>, u13cd |-> <<"uab9d">>,
     u13ce |-> <<"uab9e">>, u13cf |-> <<"uab9f">>, u13d0 |-> <<"uaba0">>,
     u13d1 |-> <<"uaba1">>, u13d2 |-> <<"uaba2">>, u13d3 |-> <<"uaba3">>,
     u13d4 |-> <<"uaba4">>, u13d5 |-> <<"uaba5">>, u13d6 |-> <<"uaba6">>,
     u13d7 |-> <<"uaba7">>, u13d8 |-> <<"uaba8">>, u13d9 |-> <<"uaba9">>,
     u13da |-> <<"uabaa">>, u13db |-> <<"uabab">>, u13dc |-> <<"uabac">>,
     u13dd |-> <<"uabad">>, u13de |-> <<"uabae">>, u13df |-> <<"uabaf">>,
     u13e0 |-> <<"uabb0">>, u13e1 |-> <<"uabb1">>, u13e2 |-> <<"uabb2">>,
     u13e3 |-> <<"uabb3">>, u13e4 |-> <<"uabb4">>, u13e5 |-> <<"uabb5">>,
     u13e6 |-> <<"uabb6">>, u13e7 |-> <<"uabb7">>, u13e8 |-> <<"uabb8">>,
     u13e9 |-> <<"uabb9">>, u13ea |-> <<"uabba">>, u13eb |-> <<"uabbb">>,
     u13ec |-> <<"uabbc">>, u13ed |-> <<"uabbd">>, u13ee |-> <<"uabbe">>,
     u13ef |-> <<"uabbf">>, u13f0 |-> <<"u13f8">>, u13f1 |-> <<"u13f9">>,
     u13f2 |-> <<"u13fa">>, u13f3 |-> <<"u13fb">>, u13f4 |-> <<"u13fc">>,
     u13f5 |-> <<"u13fd">>, u1c90 |-> <<"u10d0">>, u1c91 |-> <<"u10d1">>,
     u1c92 |-> <<"u10d2">>, u1c93 |-> <<"u10d3">>, u1c94 |-> <<"u10d4">>,
     u1c95 |-> <<"u10d5">>, u1c96 |-> <<"u10d6">>, u1c97 |-> <<"u10d7">>,
     u1c98 |-> <<"u10d8">>, u1c99 |-> <<"u10d9">>, u1c9a |-> <<"u10da">>,
     u1c9b |-> <<"u10db">>, u1c9c |-> <<"u10dc">>, u1c9d |-> <<"u10dd">>,
     u1c9e |-> <<"u10de">>, u1c9f |-> <<"u10df">>, u1ca0 |-> <<"u10e0">>,
     u1ca1 |-> <<"u10e1">>, u1ca2 |-> <<"u10e2">>, u1ca3 |-> <<"u10e3">>,
     u1ca4 |-> <<"u10e4">>, u1ca5 |-> <<"u10e5">>, u1ca6 |-> <<"u10e6">>,
     u1ca7 |-> <<"u10e7">>, u1ca8 |-> <<"u10e8">>, u1ca9 |-> <<"u10e9">>,
     u1caa |-> <<"u10ea">>, u1cab |-> <<"u10eb">>, u1cac |-> <<"u10ec">>,
     u1cad |-> <<"u10ed">>, u1cae |-> <<"u10ee">>, u1caf |-> <<"u10ef">>,
     u1cb0 |-> <<"u10f0">>, u1cb1 |-> <<"u10f1">>, u1cb2 |-> <<"u10f2">>,
     u1cb3 |-> <<"u10f3">>, u1cb4 |-> <<"u10f4">>, u1cb5 |-> <<"u10f5">>,
     u1cb6 |-> <<"u10f6">>, u1cb7 |-> <<"u10f7">>, u1cb8 |-> <<"u10f8">>,
     u1cb9 |-> <<"u10f9">>, u1cba |-> <<"u10fa">>, u1cbd |-> <<"u10fd">>,
     u1cbe |-> <<"u10fe">>, u1cbf |-> <<"u10ff">>, u1e00 |-> <<"u1e01">>,
     u1e02 |-> <<"u1e03">>, u1e04 |-> <<"u1e05">>, u1e06 |-> <<"u1e07">>,
     u1e08 |-> <<"u1e09">>, u1e0a |-> <<"u1e0b">>, u1e0c |-> <<"u1e0d">>,
     u1e0e |-> <<"u1e0f">>, u1e10 |-> <<"u1e11">>, u1e12 |-> <<"u1e13">>,
     u1e14 |-> <<"u1e15">>, u1e16 |-> <<"u1e17">>, u1e18 |-> <<"u1e19">>,
     u1e1a |-> <<"u1e1b">>, u1e1c |-> <<"u1e1d">>, u1e1e |-> <<"u1e1f">>,
     u1e20 |-> <<"u1e21">>, u1e22 |-> <<"u1e23">>, u1e24 |-> <<"u1e25">>,
     u1e26 |-> <<"u1e27">>, u1e28 |-> <<"u1e29">>, u1e2a |-> <<"u1e2b">>,
     u1e2c |-> <<"u1e2d">>, u1e2e |-> <<"u1e2f">>, u1e30 |-> <<"u1e31">>,
     u1e32 |-> <<"u1e33">>, u1e34 |-> <<"u1e35">>, u1e36 |-> <<"u1e37">>,
     u1e38 |-> <<"u1e39">>, u1e3a |-> <<"u1e3b">>, u1e3c |-> <<"u1e3d">>,
     u1e3e |-> <<"u1e3f">>, u1e40 |-> <<"u1e41">>, u1e42 |-> <<"u1e43">>,
     u1e44 |-> <<"u1e45">>, u1e46 |-> <<"u1e47">>, u1e48 |-> <<"u1e49">>,
     u1e4a |-> <<"u1e4b">>, u1e4c |-> <<"u1e4d">>, u1e4e |-> <<"u1e4f">>,
     u1e50 |-> <<"u1e51">>, u1e52 |-> <<"u1e53">>, u1e54 |-> <<"u1e55">>,
     u1e56 |-> <<"u1e57">>, u1e58 |-> <<"u1e59">>, u1e5a |-> <<"u1e5b">>,
     u1e5c |-> <<"u1e5d">>, u1e5e |-> <<"u1e5f">>, u1e60 |-> <<"u1e61">>,
     u1e62 |-> <<"u1e63">>, u1e64 |-> <<"u1e65">>, u1e66 |-> <<"u1e67">>,
     u1e68 |-> <<"u1e69">>, u1e6a |-> <<"u1e6b">>, u1e6c |-> <<"u1e6d">>,
     u1e6e |-> <<"u1e6f">>, u1e70 |-> <<"u1e71">>, u1e72 |-> <<"u1e73">>,
     u1e74 |-> <<"u1e75">>, u1e76 |-> <<"u1e77">>, u1e78 |-> <<"u1e79">>,
     u1e7a |-> <<"u1e7b">>, u1e7c |-> <<"u1e7d">>, u1e7e |-> <<"u1e7f">>,
     u1e80 |-> <<"u1e81">>, u1e82 |-> <<"u1e83">>, u1e84 |-> <<"u1e85">>,
     u1e86 |-> <<"u1e87">>, u1e88 |-> <<"u1e89">>, u1e8a |-> <<"u1e8b">>,
     u1e8c |-> <<"u1e8d">>, u1e8e |-> <<"u1e8f">>, u1e90 |-> <<"u1e91">>,
     u1e92 |-> <<"u1e93">>, u1e94 |-> <<"u1e95">>, u1e9e |-> <<"u00df">>,
     u1ea0 |-> <<"u1ea1">>, u1ea2 |-> <<"u1ea3">>, u1ea4 |-> <<"u1ea5">>,
     u1ea6 |-> <<"u1ea7">>, u1ea8 |-> <<"u1ea9">>, u1eaa |-> <<"u1eab">>,
     u1eac |-> <<"u1ead">>, u1eae |-> <<"u1eaf">>, u1eb0 |-> <<"u1eb1">>,
     u1eb2 |-> <<"u1eb3">>, u1eb4 |-> <<"u1eb5">>, u1eb6 |-> <<"u1eb7">>,
     u1eb8 |-> <<"u1eb9">>, u1eba |-> <<"u1ebb">>, u1ebc |-> <<"u1ebd">>,
     u1ebe |-> <<"u1ebf">>, u1ec0 |-> <<"u1ec1">>, u1ec2 |-> <<"u1ec3">>,
     u1ec4 |-> <<"u1ec5">>, u1ec6 |-> <<"u1ec7">>, u1ec8 |-> <<"u1ec9">>,
     u1eca |-> <<"u1ecb">>, u1ecc |-> <<"u1ecd">>, u1ece |-> <<"u1ecf">>,
     u1ed0 |-> <<"u1ed1">>, u1ed2 |-> <<"u1ed3">>, u1ed4 |-> <<"u1ed5">>,
     u1ed6 |-> <<"u1ed7">>, u1ed8 |-> <<"u1ed9">>, u1eda |-> <<"u1edb">>,
     u1edc |-> <<"u1edd">>, u1ede |-> <<"u1edf">>, u1ee0 |-> <<"u1ee1">>,
     u1ee2 |-> <<"u1ee3">>, u1ee4 |-> <<"u1ee5">>, u1ee6 |-> <<"u1ee7">>,
     u1ee8 |-> <<"u1ee9">>, u1eea |-> <<"u1eeb">>, u1eec |-> <<"u1eed">>,
     u1eee |-> <<"u1eef">>, u1ef0 |-> <<"u1ef1">>, u1ef2 |-> <<"u1ef3">>,
     u1ef4 |-> <<"u1ef5">>, u1ef6 |-> <<"u1ef7">>, u1ef8 |-> <<"u1ef9">>,
     u1efa |-> <<"u1efb">>, u1efc |-> <<"u1efd">>, u1efe |-> <<"u1eff">>,
     u1f08 |-> <<"u1f00">>, u1f09 |-> <<"u1f01">>, u1f0a |-> <<"u1f02">>,
     u1f0b |-> <<"u1f03">>, u1f0c |-> <<"u1f04">>, u1f0d |-> <<"u1f05">>,
     u1f0e |-> <<"u1f06">>, u1f0f |-> <<"u1f07">>, u1f18 |-> <<"u1f10">>,
     u1f19 |-> <<"u1f11">>, u1f1a |-> <<"u1f12">>, u1f1b |-> <<"u1f13">>,
     u1f1c |-> <<"u1f14">>, u1f1d |-> <<"u1f15">>, u1f28 |-> <<"u1f20">>,
     u1f29 |-> <<"u1f21">>, u1f2a |-> <<"u1f22">>, u1f2b |-> <<"u1f23">>,
     u1f2c |-> <<"u1f24">>, u1f2d |-> <<"u1f25">>, u1f2e |-> <<"u1f26">>,
     u1f2f |-> <<"u1f27">>, u1f38 |-> <<"u1f30">>, u1f39 |-> <<"u1f31">>,
     u1f3a |-> <<"u1f32">>, u1f3b |-> <<"u1f33">>, u1f3c |-> <<"u1f34">>,
     u1f3d |-> <<"u1f35">>, u1f3e |-> <<"u1f36">>, u1f3f |-> <<"u1f37">>,
     u1f48 |-> <<"u1f40">>, u1f49 |-> <<"u1f41">>, u1f4a |-> <<"u1f42">>,
     u1f4b |-> <<"u1f43">>, u1f4c |-> <<"u1f44">>, u1f4d |-> <<"u1f45">>,
     u1f59 |-> <<"u1f51">>, u1f5b |-> <<"u1f53">>, u1f5d |-> <<"u1f55">>,
     u1f5f |-> <<"u1f57">>, u1f68 |-> <<"u1f60">>, u1f69 |-> <<"u1f61">>,
     u1f6a |-> <<"u1f62">>, u1f6b |-> <<"u1f63">>, u1f6c |-> <<"u1f64">>,
     u1f6d |-> <<"u1f65">>, u1f6e |-> <<"u1f66">>, u1f6f |-> <<"u1f67">>,
     u1f88 |-> <<"u1f80">>, u1f89 |-> <<"u1f81">>, u1f8a |-> <<"u1f82">>,
     u1f8b |-> <<"u1f83">>, u1f8c |-> <<"u1f84">>, u1f8d |-> <<"u1f85">>,
     u1f8e |-> <<"u1f86">>, u1f8f |-> <<"u1f87">>, u1f98 |-> <<"u1f90">>,
     u1f99 |-> <<"u1f91">>, u1f9a |-> <<"u1f92">>, u1f9b |-> <<"u1f93">>,
     u1f9c |-> <<"u1f94">>, u1f9d |-> <<"u1f95">>, u1f9e |-> <<"u1f96">>,
     u1f9f |-> <<"u1f97">>, u1fa8 |-> <<"u1fa0">>, u1fa9 |-> <<"u1fa1">>,
     u1faa |-> <<"u1fa2">>, u1fab |-> <<"u1fa3">>, u1fac |-> <<"u1fa4">>,
     u1fad |-> <<"u1fa5">>, u1fae |-> <<"u1fa6">>, u1faf |-> <<"u1fa7">>,
     u1fb8 |-> <<"u1fb0">>, u1fb9 |-> <<"u1fb1">>, u1fba |-> <<"u1f70">>,
     u1fbb |-> <<"u1f71">>, u1fbc |-> <<"u1fb3">>, u1fc8 |-> <<"u1f72">>,
     u1fc9 |-> <<"u1f73">>, u1fca |-> <<"u1f74">>, u1fcb |-> <<"u1f75">>,
     u1fcc |-> <<"u1fc3">>, u1fd8 |-> <<"u1fd0">>, u1fd9 |-> <<"u1fd1">>,
     u1fda |-> <<"u1f76">>, u1fdb |-> <<"u1f77">>, u1fe8 |-> <<"u1fe0">>,
     u1fe9 |-> <<"u1fe1">>, u1fea |-> <<"u1f7a">>, u1feb |-> <<"u1f7b">>,
     u1fec |-> <<"u1fe5">>, u1ff8 |-> <<"u1f78">>, u1ff9 |-> <<"u1f79">>,
     u1ffa |-> <<"u1f7c">>, u1ffb |-> <<"u1f7d">>, u1ffc |-> <<"u1ff3">>,
     u2126 |-> <<"u03c9">>, u212a |-> <<"k">>, u212b |-> <<"u00e5">>,
     u2132 |-> <<"u214e">>, u2160 |-> <<"u2170">>, u2161 |-> <<"u2171">>,
     u2162 |-> <<"u2172">>, u2163 |-> <<"u2173">>, u2164 |-> <<"u2174">>,
     u2165 |-> <<"u2175">>, u2166 |-> <<"u2176">>, u2167 |-> <<"u2177">>,
     u2168 |-> <<"u2178">>, u2169 |-> <<"u2179">>, u216a |-> <<"u217a">>,
     u216b |-> <<"u217b">>, u216c |-> <<"u217c">>, u216d |-> <<"u217d">>,
     u216e |-> <<"u217e">>, u216f |-> <<"u217f">>, u2183 |-> <<"u2184">>,
     u24b6 |-> <<"u24d0">>, u24b7 |-> <<"u24d1">>, u24b8 |-> <<"u24d2">>,
     u24b9 |-> <<"u24d3">>, u24ba |-> <<"u24d4">>, u24bb |-> <<"u24d5">>,
     u24bc |-> <<"u24d6">>, u24bd |-> <<"u24d7">>, u24be |-> <<"u24d8">>,
     u24bf |-> <<"u24d9">>, u24c0 |-> <<"u24da">>, u24c1 |-> <<"u24db">>,
     u24c2 |-> <<"u24dc">>, u24c3 |-> <<"u24dd">>, u24c4 |-> <<"u24de">>,
     u24c5 |-> <<"u24df">>, u24c6 |-> <<"u24e0">>, u24c7 |-> <<"u24e1">>,
     u24c8 |-> <<"u24e2">>, u24c9 |-> <<"u24e3">>, u24ca |-> <<"u24e4">>,
     u24cb |-> <<"u24e5">>, u24cc |-> <<"u24e6">>, u24cd |-> <<"u24e7">>,
     u24ce |-> <<"u24e8">>, u24cf |-> <<"u24e9">>, u2c00 |-> <<"u2c30">>,
     u2c01 |-> <<"u2c31">>, u2c02 |-> <<"u2c32">>, u2c03 |-> <<"u2c33">>,
     u2c04 |-> <<"u2c34">>, u2c05 |-> <<"u2c35">>, u2c06 |-> <<"u2c36">>,
     u2c07 |-> <<"u2c37">>, u2c08 |-> <<"u2c38">>, u2c09 |-> <<"u2c39">>,
     u2c0a |-> <<"u2c3a">>, u2c0b |-> <<"u2c3b">>, u2c0c |-> <<"u2c3c">>,
     u2c0d |-> <<"u2c3d">>, u2c0e |-> <<"u2c3e">>, u2c0f |-> <<"u2c3f">>,
     u2c10 |-> <<"u2c40">>, u2c11 |-> <<"u2c41">>, u2c12 |-> <<"u2c42">>,
     u2c13 |-> <<"u2c43">>, u2c14 |-> <<"u2c44">>, u2c15 |-> <<"u2c45">>,
     u2c16 |-> <<"u2c46">>, u2c17 |-> <<"u2c47">>, u2c18 |-> <<"u2c48">>,
     u2c19 |-> <<"u2c49">>, u2c1a |-> <<"u2c4a">>, u2c1b |-> <<"u2c4b">>,
     u2c1c |-> <<"u2c4c">>, u2c1d |-> <<"u2c4d">>, u2c1e |-> <<"u2c4e">>,
     u2c1f |-> <<"u2c4f">>, u2c20 |-> <<"u2c50">>, u2c21 |-> <<"u2c51">>,
     u2c22 |-> <<"u2c52">>, u2c23 |-> <<"u2c53">>, u2c24 |-> <<"u2c54">>,
     u2c25 |-> <<"u2c55">>, u2c26 |-> <<"u2c56">>, u2c27 |-> <<"u2c57">>,
     u2c28 |-> <<"u2c58">>, u2c29 |-> <<"u2c59">>, u2c2a |-> <<"u2c5a">>,
     u2c2b |-> <<"u2c5b">>, u2c2c |-> <<"u2c5c">>, u2c2d |-> <<"u2c5d">>,
     u2c2e |-> <<"u2c5e">>, u2c2f |-> <<"u2c5f">>, u2c60 |-> <<"u2c61">>,
     u2c62 |-> <<"u026b">>, u2c63 |-> <<"u1d7d">>, u2c64 |-> <<"u027d">>,
     u2c67 |-> <<"u2c68">>, u2c69 |-> <<"u2c6a">>, u2c6b |-> <<"u2c6c">>,
     u2c6d |-> <<"u0251">>, u2c6e |-> <<"u0271">>, u2c6f |-> <<"u0250">>,
     u2c70 |-> <<"u0252">>, u2c72 |-> <<"u2c73">>, u2c75 |-> <<"u2c76">>,
     u2c7e |-> <<"u023f">>, u2c7f |-> <<"u0240">>, u2c80 |-> <<"u2c81">>,
     u2c82 |-> <<"u2c83">>, u2c84 |-> <<"u2c85">>, u2c86 |-> <<"u2c87">>,
     u2c88 |-> <<"u2c89">>, u2c8a |-> <<"u2c8b">>, u2c8c |-> <<"u2c8d">>,
     u2c8e |-> <<"u2c8f">>, u2c90 |-> <<"u2c91">>, u2c92 |-> <<"u2c93">>,
     u2c94 |-> <<"u2c95">>, u2c96 |-> <<"u2c97">>, u2c98 |-> <<"u2c99">>,
     u2c9a |-> <<"u2c9b">>, u2c9c |-> <<"u2c9d">>, u2c9e |-> <<"u2c9f">>,
     u2ca0 |-> <<"u2ca1">>, u2ca2 |-> <<"u2ca3">>, u2ca4 |-> <<"u2ca5">>,
     u2ca6 |-> <<"u2ca7">>, u2ca8 |-> <<"u2ca9">>, u2caa |-> <<"u2cab">>,
     u2cac |-> <<"u2cad">>, u2cae |-> <<"u2caf">>, u2cb0 |-> <<"u2cb1">>,
     u2cb2 |-> <<"u2cb3">>, u2cb4 |-> <<"u2cb5">>, u2cb6 |-> <<"u2cb7">>,
     u2cb8 |-> <<"u2cb9">>, u2cba |-> <<"u2cbb">>, u2cbc |-> <<"u2cbd">>,
     u2cbe |-> <<"u2cbf">>, u2cc0 |-> <<"u2cc1">>, u2cc2 |-> <<"u2cc3">>,
     u2cc4 |-> <<"u2cc5">>, u2cc6 |-> <<"u2cc7">>, u2cc8 |-> <<"u2cc9">>,
     u2cca |-> <<"u2ccb">>, u2ccc |-> <<"u2ccd">>, u2cce |-> <<"u2ccf">>,
     u2cd0 |-> <<"u2cd1">>, u2cd2 |-> <<"u2cd3">>, u2cd4 |-> <<"u2cd5">>,
     u2cd6 |-> <<"u2cd7">>, u2cd8 |-> <<"u2cd9">>, u2cda |-> <<"u2cdb">>,
     u2cdc |-> <<"u2cdd">>, u2cde |-> <<"u2cdf">>, u2ce0 |-> <<"u2ce1">>,
     u2ce2 |-> <<"u2ce3">>, u2ceb |-> <<"u2cec">>, u2ced |-> <<"u2cee">>,
     u2cf2 |-> <<"u2cf3">>, ua640 |-> <<"ua641">>, ua642 |-> <<"ua643">>,
     ua644 |-> <<"ua645">>, ua646 |-> <<"ua647">>, ua648 |-> <<"ua649">>,
     ua64a |-> <<"ua64b">>, ua64c |-> <<"ua64d">>, ua64e |-> <<"ua64f">>,
     ua650 |-> <<"ua651">>, ua652 |-> <<"ua653">>, ua654 |-> <<"ua655">>,
     ua656 |-> <<"ua657">>, ua658 |-> <<"ua659">>, ua65a |-> <<"ua65b">>,
     ua65c |-> <<"ua65d">>, ua65e |-> <<"ua65f">>, ua660 |-> <<"ua661">>,
     ua662 |-> <<"ua663">>, ua664 |-> <<"ua665">>, ua666 |-> <<"ua667">>,
     ua668 |-> <<"ua669">>, ua66a |-> <<"ua66b">>, ua66c |-> <<"ua66d">>,
     ua680 |-> <<"ua681">>, ua682 |-> <<"ua683">>, ua684 |-> <<"ua685">>,
     ua686 |-> <<"ua687">>, ua688 |-> <<"ua689">>, ua68a |-> <<"ua68b">>,
     ua68c |-> <<"ua68d">>, ua68e |-> <<"ua68f">>, ua690 |-> <<"ua691">>,
     ua692 |-> <<"ua693">>, ua694 |-> <<"ua695">>, ua696 |-> <<"ua697">>,
     ua698 |-> <<"ua699">>, ua69a |-> <<"ua69b">>, ua722 |-> <<"ua723">>,
     ua724 |-> <<"ua725">>, ua726 |-> <<"ua727">>, ua728 |-> <<"ua729">>,
     ua72a |-> <<"ua72b">>, ua72c |-> <<"ua72d">>, ua72e |-> <<"ua72f">>,
     ua732 |-> <<"ua733">>, ua734 |-> <<"ua735">>, ua736 |-> <<"ua737">>,
     ua738 |-> <<"ua739">>, ua73a |-> <<"ua73b">>, ua73c |-> <<"ua73d">>,
     ua73e |-> <<"ua73f">>, ua740 |-> <<"ua741">>, ua742 |-> <<"ua743">>,
     ua744 |-> <<"ua745">>, ua746 |-> <<"ua747">>, ua748 |-> <<"ua749">>,
     ua74a |-> <<"ua74b">>, ua74c |-> <<"ua74d">>, ua74e |-> <<"ua74f">>,
     ua750 |-> <<"ua751">>, ua752 |-> <<"ua753">>, ua754 |-> <<"ua755">>,
     ua756 |-> <<"ua757">>, ua758 |-> <<"ua759">>, ua75a |-> <<"ua75b">>,
     ua75c |-> <<"ua75d">>, ua75e |-> <<"ua75f">>, ua760 |-> <<"ua761">>,
     ua762 |-> <<"ua763">>, ua764 |-> <<"ua765">>, ua766 |-> <<"ua767">>,
     ua768 |-> <<"ua769">>, ua76a |-> <<"ua76b">>, ua76c |-> <<"ua76d">>,
     ua76e |-> <<"ua76f">>, ua779 |-> <<"ua77a">>, ua77b |-> <<"ua77c">>,
     ua77d |-> <<"u1d79">>, ua77e |-> <<"ua77f">>, ua780 |-> <<"ua781">>,
     ua782 |-> <<"ua783">>, ua784 |-> <<"ua785">>, ua786 |-> <<"ua787">>,
     ua78b |-> <<"ua78c">>, ua78d |-> <<"u0265">>, ua790 |-> <<"ua791">>,
     ua792 |-> <<"ua793">>, ua796 |-> <<"ua797">>, ua798 |-> <<"ua799">>,
     ua79a |-> <<"ua79b">>, ua79c |-> <<"ua79d">>, ua79e |-> <<"ua79f">>,
     ua7a0 |-> <<"ua7a1">>, ua7a2 |-> <<"ua7a3">>, ua7a4 |-> <<"ua7a5">>,
     ua7a6 |-> <<"ua7a7">>, ua7a8 |-> <<"ua7a9">>, ua7aa |-> <<"u0266">>,
     ua7ab |-> <<"u025c">>, ua7ac |-> <<"u0261">>, ua7ad |-> <<"u026c">>,
     ua7ae |-> <<"u026a">>, ua7b0 |-> <<"u029e">>, ua7b1 |-> <<"u0287">>,
     ua7b2 |-> <<"u029d">>, ua7b3 |-> <<"uab53">>, ua7b4 |-> <<"ua7b5">>,
     ua7b6 |-> <<"ua7b7">>, ua7b8 |-> <<"ua7b9">>, ua7ba |-> <<"ua7bb">>,
     ua7bc |-> <<"ua7bd">>, ua7be |-> <<"ua7bf">>, ua7c0 |-> <<"ua7c1">>,
     ua7c2 |-> <<"ua7c3">>, ua7c4 |-> <<"ua794">>, ua7c5 |-> <<"u0282">>,
     ua7c6 |-> <<"u1d8e">>, ua7c7 |-> <<"ua7c8">>, ua7c9 |-> <<"ua7ca">>,
     ua7d0 |-> <<"ua7d1">>, ua7d6 |-> <<"ua7d7">>, ua7d8 |-> <<"ua7d9">>,
     ua7f5 |-> <<"ua7f6">>, uff21 |-> <<"uff41">>, uff22 |-> <<"uff42">>,
     uff23 |-> <<"uff43">>, uff24 |-> <<"uff44">>, uff25 |-> <<"uff45">>,
     uff26 |-> <<"uff46">>, uff27 |-> <<"uff47">>, uff28 |-> <<"uff48">>,
     uff29 |-> <<"uff49">>, uff2a |-> <<"uff4a">>, uff2b |-> <<"uff4b">>,
     uff2c |-> <<"uff4c">>, uff2d |-> <<"uff4d">>, uff2e |-> <<"uff4e">>,
     uff2f |-> <<"uff4f">>, uff30 |-> <<"uff50">>, uff31 |-> <<"uff51">>,
     uff32 |-> <<"uff52">>, uff33 |-> <<"uff53">>, uff34 |-> <<"uff54">>,
     uff35 |-> <<"uff55">>, uff36 |-> <<"uff56">>, uff37 |-> <<"uff57">>,
     uff38 |-> <<"uff58">>, uff39 |-> <<"uff59">>, uff3a |-> <<"uff5a">>,
     u10400 |-> <<"u10428">>, u10401 |-> <<"u10429">>,
     u10402 |-> <<"u1042a">>, u10403 |-> <<"u1042b">>,
     u10404 |-> <<"u1042c">>, u10405 |-> <<"u1042d">>,
     u10406 |-> <<"u1042e">>, u10407 |-> <<"u1042f">>,
     u10408 |-> <<"u10430">>, u10409 |-> <<"u10431">>,
     u1040a |-> <<"u10432">>, u1040b |-> <<"u10433">>,
     u1040c |-> <<"u10434">>, u1040d |-> <<"u10435">>,
     u1040e |-> <<"u10436">>, u1040f |-> <<"u10437">>,
     u10410 |-> <<"u10438">>, u10411 |-> <<"u10439">>,
     u10412 |-> <<"u1043a">>, u10413 |-> <<"u1043b">>,
     u10414 |-> <<"u1043c">>, u10415 |-> <<"u1043d">>,
     u10416 |-> <<"u1043e">>, u10417 |-> <<"u1043f">>,
     u10418 |-> <<"u10440">>, u10419 |-> <<"u10441">>,
     u1041a |-> <<"u10442">>, u1041b |-> <<"u10443">>,
     u1041c |-> <<"u10444">>, u1041d |-> <<"u10445">>,
     u1041e |-> <<"u10446">>, u1041f |-> <<"u10447">>,
     u10420 |-> <<"u10448">>, u10421 |-> <<"u10449">>,
     u10422 |-> <<"u1044a">>, u10423 |-> <<"u1044b">>,
     u10424 |-> <<"u1044c">>, u10425 |-> <<"u1044d">>,
     u10426 |-> <<"u1044e">>, u10427 |-> <<"u1044f">>,
     u104b0 |-> <<"u104d8">>, u104b1 |-> <<"u104d9">>,
     u104b2 |-> <<"u104da">>, u104b3 |-> <<"u104db">>,
     u104b4 |-> <<"u104dc">>, u104b5 |-> <<"u104dd">>,
     u104b6 |-> <<"u104de">>, u104b7 |-> <<"u104df">>,
     u104b8 |-> <<"u104e0">>, u104b9 |-> <<"u104e1">>,
     u104ba |-> <<"u104e2">>, u104bb |-> <<"u104e3">>,
     u104bc |-> <<"u104e4">>, u104bd |-> <<"u104e5">>,
     u104be |-> <<"u104e6">>, u104bf |-> <<"u104e7">>,
     u104c0 |-> <<"u104e8">>, u104c1 |-> <<"u104e9">>,
     u104c2 |-> <<"u104ea">>, u104c3 |-> <<"u104eb">>,
     u104c4 |-> <<"u104ec">>, u104c5 |-> <<"u104ed">>,
     u104c6 |-> <<"u104ee">>, u104c7 |-> <<"u104ef">>,
     u104c8 |-> <<"u104f0">>, u104c9 |-> <<"u104f1">>,
     u104ca |-> <<"u104f2">>, u104cb |-> <<"u104f3">>,
     u104cc |-> <<"u104f4">>, u104cd |-> <<"u104f5">>,
     u104ce |-> <<"u104f6">>, u104cf |-> <<"u104f7">>,
     u104d0 |-> <<"u104f8">>, u104d1 |-> <<"u104f9">>,
     u104d2 |-> <<"u104fa">>, u104d3 |-> <<"u104fb">>,
     u10570 |-> <<"u10597">>, u10571 |-> <<"u10598">>,
     u10572 |-> <<"u10599">>, u10573 |-> <<"u1059a">>,
     u10574 |-> <<"u1059b">>, u10575 |-> <<"u1059c">>,
     u10576 |-> <<"u1059d">>, u10577 |-> <<"u1059e">>,
     u10578 |-> <<"u1059f">>, u10579 |-> <<"u105a0">>,
     u1057a |-> <<"u105a1">>, u1057c |-> <<"u105a3">>,
     u1057d |-> <<"u105a4">>, u1057e |-> <<"u105a5">>,
     u1057f |-> <<"u105a6">>, u10580 |-> <<"u105a7">>,
     u10581 |-> <<"u105a8">>, u10582 |-> <<"u105a9">>,
     u10583 |-> <<"u105aa">>, u10584 |-> <<"u105ab">>,
     u10585 |-> <<"u105ac">>, u10586 |-> <<"u105ad">>,
     u10587 |-> <<"u105ae">>, u10588 |-> <<"u105af">>,
     u10589 |-> <<"u105b0">>, u1058a |-> <<"u105b1">>,
     u1058c |-> <<"u105b3">>, u1058d |-> <<"u105b4">>,
     u1058e |-> <<"u105b5">>, u1058f |-> <<"u105b6">>,
     u10590 |-> <<"u105b7">>, u10591 |-> <<"u105b8">>,
     u10592 |-> <<"u105b9">>, u10594 |-> <<"u105bb">>,
     u10595 |-> <<"u105bc">>, u10c80 |-> <<"u10cc0">>,
     u10c81 |-> <<"u10cc1">>, u10c82 |-> <<"u10cc2">>,
     u10c83 |-> <<"u10cc3">>, u10c84 |-> <<"u10cc4">>,
     u10c85 |-> <<"u10cc5">>, u10c86 |-> <<"u10cc6">>,
     u10c87 |-> <<"u10cc7">>, u10c88 |-> <<"u10cc8">>,
     u10c89 |-> <<"u10cc9">>, u10c8a |-> <<"u10cca">>,
     u10c8b |-> <<"u10ccb">>, u10c8c |-> <<"u10ccc">>,
     u10c8d |-> <<"u10ccd">>, u10c8e |-> <<"u10cce">>,
     u10c8f |-> <<"u10ccf">>, u10c90 |-> <<"u10cd0">>,
     u10c91 |-> <<"u10cd1">>, u10c92 |-> <<"u10cd2">>,
     u10c93 |-> <<"u10cd3">>, u10c94 |-> <<"u10cd4">>,
     u10c95 |-> <<"u10cd5">>, u10c96 |-> <<"u10cd6">>,
     u10c97 |-> <<"u10cd7">>, u10c98 |-> <<"u10cd8">>,
     u10c99 |-> <<"u10cd9">>, u10c9a |-> <<"u10cda">>,
     u10c9b |-> <<"u10cdb">>, u10c9c |-> <<"u10cdc">>,
     u10c9d |-> <<"u10cdd">>, u10c9e |-> <<"u10cde">>,
     u10c9f |-> <<"u10cdf">>, u10ca0 |-> <<"u10ce0">>,
     u10ca1 |-> <<"u10ce1">>, u10ca2 |-> <<"u10ce2">>,
     u10ca3 |-> <<"u10ce3">>, u10ca4 |-> <<"u10ce4">>,
     u10ca5 |-> <<"u10ce5">>, u10ca6 |-> <<"u10ce6">>,
     u10ca7 |-> <<"u10ce7">>, u10ca8 |-> <<"u10ce8">>,
     u10ca9 |-> <<"u10ce9">>, u10caa |-> <<"u10cea">>,
     u10cab |-> <<"u10ceb">>, u10cac |-> <<"u10cec">>,
     u10cad |-> <<"u10ced">>, u10cae |-> <<"u10cee">>,
     u10caf |-> <<"u10cef">>, u10cb0 |-> <<"u10cf0">>,
     u10cb1 |-> <<"u10cf1">>, u10cb2 |-> <<"u10cf2">>,
     u118a0 |-> <<"u118c0">>, u118a1 |-> <<"u118c1">>,
     u118a2 |-> <<"u118c2">>, u118a3 |-> <<"u118c3">>,
     u118a4 |-> <<"u118c4">>, u118a5 |-> <<"u118c5">>,
     u118a6 |-> <<"u118c6">>, u118a7 |-> <<"u118c7">>,
     u118a8 |-> <<"u118c8">>, u118a9 |-> <<"u118c9">>,
     u118aa |-> <<"u118ca">>, u118ab |-> <<"u118cb">>,
     u118ac |-> <<"u118cc">>, u118ad |-> <<"u118cd">>,
     u118ae |-> <<"u118ce">>, u118af |-> <<"u118cf">>,
     u118b0 |-> <<"u118d0">>, u118b1 |-> <<"u118d1">>,
     u118b2 |-> <<"u118d2">>, u118b3 |-> <<"u118d3">>,
     u118b4 |-> <<"u118d4">>, u118b5 |-> <<"u118d5">>,
     u118b6 |-> <<"u118d6">>, u118b7 |-> <<"u118d7">>,
     u118b8 |-> <<"u118d8">>, u118b9 |-> <<"u118d9">>,
     u118ba |-> <<"u118da">>, u118bb |-> <<"u118db">>,
     u118bc |-> <<"u118dc">>, u118bd |-> <<"u118dd">>,
     u118be |-> <<"u118de">>, u118bf |-> <<"u118df">>,
     u16e40 |-> <<"u16e60">>, u16e41 |-> <<"u16e61">>,
     u16e42 |-> <<"u16e62">>, u16e43 |-> <<"u16e63">>,
     u16e44 |-> <<"u16e64">>, u16e45 |-> <<"u16e65">>,
     u16e46 |-> <<"u16e66">>, u16e47 |-> <<"u16e67">>,
     u16e48 |-> <<"u16e68">>, u16e49 |-> <<"u16e69">>,
     u16e4a |-> <<"u16e6a">>, u16e4b |-> <<"u16e6b">>,
     u16e4c |-> <<"u16e6c">>, u16e4d |-> <<"u16e6d">>,
     u16e4e |-> <<"u16e6e">>, u16e4f |-> <<"u16e6f">>,
     u16e50 |-> <<"u16e70">>, u16e51 |-> <<"u16e71">>,
     u16e52 |-> <<"u16e72">>, u16e53 |-> <<"u16e73">>,
     u16e54 |-> <<"u16e74">>, u16e55 |-> <<"u16e75">>,
     u16e56 |-> <<"u16e76">>, u16e57 |-> <<"u16e77">>,
     u16e58 |-> <<"u16e78">>, u16e59 |-> <<"u16e79">>,
     u16e5a |-> <<"u16e7a">>, u16e5b |-> <<"u16e7b">>,
     u16e5c |-> <<"u16e7c">>, u16e5d |-> <<"u16e7d">>,
     u16e5e |-> <<"u16e7e">>, u16e5f |-> <<"u16e7f">>,
     u1e900 |-> <<"u1e922">>, u1e901 |-> <<"u1e923">>,
     u1e902 |-> <<"u1e924">>, u1e903 |-> <<"u1e925">>,
     u1e904 |-> <<"u1e926">>, u1e905 |-> <<"u1e927">>,
     u1e906 |-> <<"u1e928">>, u1e907 |-> <<"u1e929">>,
     u1e908 |-> <<"u1e92a">>, u1e909 |-> <<"u1e92b">>,
     u1e90a |-> <<"u1e92c">>, u1e90b |-> <<"u1e92d">>,
     u1e90c |-> <<"u1e92e">>, u1e90d |-> <<"u1e92f">>,
     u1e90e |-> <<"u1e930">>, u1e90f |-> <<"u1e931">>,
     u1e910 |-> <<"u1e932">>, u1e911 |-> <<"u1e933">>,
     u1e912 |-> <<"u1e934">>, u1e913 |-> <<"u1e935">>,
     u1e914 |-> <<"u1e936">>, u1e915 |-> <<"u1e937">>,
     u1e916 |-> <<"u1e938">>, u1e917 |-> <<"u1e939">>,
     u1e918 |-> <<"u1e93a">>, u1e919 |-> <<"u1e93b">>,
     u1e91a |-> <<"u1e93c">>, u1e91b |-> <<"u1e93d">>,
     u1e91c |-> <<"u1e93e">>, u1e91d |-> <<"u1e93f">>,
     u1e91e |-> <<"u1e940">>, u1e91f |-> <<"u1e941">>,
     u1e920 |-> <<"u1e942">>, u1e921 |-> <<"u1e943">>]

\* the case-ignorable characters, which str.lower() skips when it looks for
\* the letters around a capital sigma
CaseIgnorable ==
    {"'", ".", ":", "^", "u0060", "u00a8", "u00ad", "u00af", "u00b4",
     "u00b7", "u00b8", "u02b0", "u02b1", "u02b2", "u02b3", "u02b4", "u02b5",
     "u02b6", "u02b7", "u02b8", "u02b9", "u02ba", "u02bb", "u02bc", "u02bd",
     "u02be", "u02bf", "u02c0", "u02c1", "u02c2", "u02c3", "u02c4", "u02c5",
     "u02c6", "u02c7", "u02c8", "u02c9", "u02ca", "u02cb", "u02cc", "u02cd",
     "u02ce", "u02cf", "u02d0", "u02d1", "u02d2", "u02d3", "u02d4", "u02d5",
     "u02d6", "u02d7", "u02d8", "u02d9", "u02da", "u02db", "u02dc", "u02dd",
     "u02de", "u02df", "u02e0", "u02e1", "u02e2", "u02e3", "u02e4", "u02e5",
     "u02e6", "u02e7", "u02e8", "u02e9", "u02ea", "u02eb", "u02ec", "u02ed",
     "u02ee", "u02ef", "u02f0", "u02f1", "u02f2", "u02f3", "u02f4", "u02f5",
     "u02f6", "u02f7", "u02f8", "u02f9", "u02fa", "u02fb", "u02fc", "u02fd",
     "u02fe", "u02ff", "u0300", "u0301", "u0302", "u0303", "u0304", "u0305",
     "u0306", "u0307", "u0308", "u0309", "u030a", "u030b", "u030c", "u030d",
     "u030e", "u030f", "u0310", "u0311", "u0312", "u0313", "u0314", "u0315",
     "u0316", "u0317", "u0318", "u0319", "u031a", "u031b", "u031c", "u031d",
     "u031e", "u031f", "u0320", "u0321", "u0322", "u0323", "u0324", "u0325",
     "u0326", "u0327", "u0328", "u0329", "u032a", "u032b", "u032c", "u032d",
     "u032e", "u032f", "u0330", "u0331", "u0332", "u0333", "u0334", "u0335",
     "u0336", "u0337", "u0338", "u0339", "u033a", "u033b", "u033c", "u033d",
     "u033e", "u033f", "u0340", "u0341", "u0342", "u0343", "u0344", "u0345",
     "u0346", "u0347", "u0348", "u0349", "u034a", "u034b", "u034c", "u034d",
     "u034e", "u034f", "u0350", "u0351", "u0352", "u0353", "u0354", "u0355",
     "u0356", "u0357", "u0358", "u0359", "u035a", "u035b", "u035c", "u035d",
     "u035e", "u035f", "u0360", "u0361", "u0362", "u0363", "u0364", "u0365",
     "u0366", "u0367", "u0368", "u0369", "u036a", "u036b", "u036c", "u036d",
     "u036e", "u036f", "u0374", "u0375", "u037a", "u0384", "u0385", "u0387",
     "u0483", "u0484", "u0485", "u0486", "u0487", "u0488", "u0489", "u0559",
     "u055f", "u0591", "u0592", "u0593", "u0594", "u0595", "u0596", "u0597",
     "u0598", "u0599", "u059a", "u059b", "u059c", "u059d", "u059e", "u059f",
     "u05a0", "u05a1", "u05a2", "u05a3", "u05a4", "u05a5", "u05a6", "u05a7",
     "u05a8", "u05a9", "u05aa", "u05ab", "u05ac", "u05ad", "u05ae", "u05af",
     "u05b0", "u05b1", "u05b2", "u05b3", "u05b4", "u05b5", "u05b6", "u05b7",
     "u05b8", "u05b9", "u05ba", "u05bb", "u05bc", "u05bd", "u05bf", "u05c1",
     "u05c2", "u05c4", "u05c5", "u05c7", "u05f4", "u0600", "u0601", "u0602",
     "u0603", "u0604", "u0605", "u0610", "u0611", "u0612", "u0613", "u0614",
     "u0615", "u0616", "u0617", "u0618", "u0619", "u061a", "u061c", "u0640",
     "u064b", "u064c", "u064d", "u064e", "u064f", "u0650", "u0651", "u0652",
     "u0653", "u0654", "u0655", "u0656", "u0657", "u0658", "u0659", "u065a",
     "u065b", "u065c", "u065d", "u065e", "u065f", "u0670", "u06d6", "u06d7",
     "u06d8", "u06d9", "u06da", "u06db", "u06dc", "u06dd", "u06df", "u06e0",
     "u06e1", "u06e2", "u06e3", "u06e4", "u06e5", "u06e6", "u06e7", "u06e8",
     "u06ea", "u06eb", "u06ec", "u06ed", "u070f", "u0711", "u0730", "u0731",
     "u0732", "u0733", "u0734", "u0735", "u0736", "u0737", "u0738", "u0739",
     "u073a", "u073b", "u073c", "u073d", "u073e", "u073f", "u0740", "u0741",
     "u0742", "u0743", "u0744", "u0745", "u0746", "u0747", "u0748", "u0749",
     "u074a", "u07a6", "u07a7", "u07a8", "u07a9", "u07aa", "u07ab", "u07ac",
     "u07ad", "u07ae", "u07af", "u07b0", "u07eb", "u07ec", "u07ed", "u07ee",
     "u07ef", "u07f0", "u07f1", "u07f2", "u07f3", "u07f4", "u07f5", "u07fa",
     "u07fd", "u0816", "u0817", "u0818", "u0819", "u081a", "u081b", "u081c",
     "u081d", "u081e", "u081f", "u0820", "u0821", "u0822", "u0823", "u0824",
     "u0825", "u0826", "u0827", "u0828", "u0829", "u082a", "u082b", "u082c",
     "u082d", "u0859", "u085a", "u085b", "u0888", "u0890", "u0891", "u0898",
     "u0899", "u089a", "u089b", "u089c", "u089d", "u089e", "u089f", "u08c9",
     "u08ca", "u08cb", "u08cc", "u08cd", "u08ce", "u08cf", "u08d0", "u08d1",
     "u08d2", "u08d3", "u08d4", "u08d5", "u08d6", "u08d7", "u08d8", "u08d9",
     "u08da", "u08db", "u08dc", "u08dd", "u08de", "u08df", "u08e0", "u08e1",
     "u08e2", "u08e3", "u08e4", "u08e5", "u08e6", "u08e7", "u08e8", "u08e9",
     "u08ea", "u08eb", "u08ec", "u08ed", "u08ee", "u08ef", "u08f0", "u08f1",
     "u08f2", "u08f3", "u08f4", "u08f5", "u08f6", "u08f7", "u08f8", "u08f9",
     "u08fa", "u08fb", "u08fc", "u08fd", "u08fe", "u08ff", "u0900", "u0901",
     "u0902", "u093a", "u093c", "u0941", "u0942", "u0943", "u0944", "u0945",
     "u0946", "u0947", "u0948", "u094d", "u0951", "u0952", "u0953", "u0954",
     "u0955", "u0956", "u0957", "u0962", "u0963", "u0971", "u0981", "u09bc",
     "u09c1", "u09c2", "u09c3", "u09c4", "u09cd", "u09e2", "u09e3", "u09fe",
     "u0a01", "u0a02", "u0a3c", "u0a41", "u0a42", "u0a47", "u0a48", "u0a4b",
     "u0a4c", "u0a4d", "u0a51", "u0a70", "u0a71", "u0a75", "u0a81", "u0a82",
     "u0abc", "u0ac1", "u0ac2", "u0ac3", "u0ac4", "u0ac5", "u0ac7", "u0ac8",
     "u0acd", "u0ae2", "u0ae3", "u0afa", "u0afb", "u0afc", "u0afd", "u0afe",
     "u0aff", "u0b01", "u0b3c", "u0b3f", "u0b41", "u0b42", "u0b43", "u0b44",
     "u0b4d", "u0b55", "u0b56", "u0b62", "u0b63", "u0b82", "u0bc0", "u0bcd",
     "u0c00", "u0c04", "u0c3c", "u0c3e", "u0c3f", "u0c40", "u0c46", "u0c47",
     "u0c48", "u0c4a", "u0c4b", "u0c4c", "u0c4d", "u0c55", "u0c56", "u0c62",
     "u0c63", "u0c81", "u0cbc", "u0cbf", "u0cc6", "u0ccc", "u0ccd", "u0ce2",
     "u0ce3", "u0d00", "u0d01", "u0d3b", "u0d3c", "u0d41", "u0d42", "u0d43",
     "u0d44", "u0d4d", "u0d62", "u0d63", "u0d81", "u0dca", "u0dd2", "u0dd3",
     "u0dd4", "u0dd6", "u0e31", "u0e34", "u0e35", "u0e36", "u0e37", "u0e38",
     "u0e39", "u0e3a", "u0e46", "u0e47", "u0e48", "u0e49", "u0e4a", "u0e4b",
     "u0e4c", "u0e4d", "u0e4e", "u0eb1", "u0eb4", "u0eb5", "u0eb6", "u0eb7",
     "u0eb8", "u0eb9", "u0eba", "u0ebb", "u0ebc", "u0ec6", "u0ec8", "u0ec9",
     "u0eca", "u0ecb", "u0ecc", "u0ecd", "u0f18", "u0f19", "u0f35", "u0f37",
     "u0f39", "u0f71", "u0f72", "u0f73", "u0f74", "u0f75", "u0f76", "u0f77",
     "u0f78", "u0f79", "u0f7a", "u0f7b", "u0f7c", "u0f7d", "u0f7e", "u0f80",
     "u0f81", "u0f82", "u0f83", "u0f84", "u0f86", "u0f87", "u0f8d", "u0f8e",
     "u0f8f", "u0f90", "u0f91", "u0f92", "u0f93", "u0f94", "u0f95", "u0f96",
     "u0f97", "u0f99", "u0f9a", "u0f9b", "u0f9c", "u0f9d", "u0f9e", "u0f9f",
     "u0fa0", "u0fa1", "u0fa2", "u0fa3", "u0fa4", "u0fa5", "u0fa6", "u0fa7",
     "u0fa8", "u0fa9", "u0faa", "u0fab", "u0fac", "u0fad", "u0fae", "u0faf",
     "u0fb0", "u0fb1", "u0fb2", "u0fb3", "u0fb4", "u0fb5", "u0fb6", "u0fb7",
     "u0fb8", "u0fb9", "u0fba", "u0fbb", "u0fbc", "u0fc6", "u102d", "u102e",
     "u102f", "u1030", "u1032", "u1033", "u1034", "u1035", "u1036", "u1037",
     "u1039", "u103a", "u103d", "u103e", "u1058", "u1059", "u105e", "u105f",
     "u1060", "u1071", "u1072", "u1073", "u1074", "u1082", "u1085", "u1086",
     "u108d", "u109d", "u10fc", "u135d", "u135e", "u135f", "u1712", "u1713",
     "u1714", "u1732", "u1733", "u1752", "u1753", "u1772", "u1773", "u17b4",
     "u17b5", "u17b7", "u17b8", "u17b9", "u17ba", "u17bb", "u17bc", "u17bd",
     "u17c6", "u17c9", "u17ca", "u17cb", "u17cc", "u17cd", "u17ce", "u17cf",
     "u17d0", "u17d1", "u17d2", "u17d3", "u17d7", "u17dd", "u180b", "u180c",
     "u180d", "u180e", "u180f", "u1843", "u1885", "u1886", "u18a9", "u1920",
     "u1921", "u1922", "u1927", "u1928", "u1932", "u1939", "u193a", "u193b",
     "u1a17", "u1a18", "u1a1b", "u1a56", "u1a58", "u1a59", "u1a5a", "u1a5b",
     "u1a5c", "u1a5d", "u1a5e", "u1a60", "u1a62", "u1a65", "u1a66", "u1a67",
     "u1a68", "u1a69", "u1a6a", "u1a6b", "u1a6c", "u1a73", "u1a74", "u1a75",
     "u1a76", "u1a77", "u1a78", "u1a79", "u1a7a", "u1a7b", "u1a7c", "u1a7f",
     "u1aa7", "u1ab0", "u1ab1", "u1ab2", "u1ab3", "u1ab4", "u1ab5", "u1ab6",
     "u1ab7", "u1ab8", "u1ab9", "u1aba", "u1abb", "u1abc", "u1abd", "u1abe",
     "u1abf", "u1ac0", "u1ac1", "u1ac2", "u1ac3", "u1ac4", "u1ac5", "u1ac6",
     "u1ac7", "u1ac8", "u1ac9", "u1aca", "u1acb", "u1acc", "u1acd", "u1ace",
     "u1b00", "u1b01", "u1b02", "u1b03", "u1b34", "u1b36", "u1b37", "u1b38",
     "u1b39", "u1b3a", "u1b3c", "u1b42", "u1b6b", "u1b6c", "u1b6d", "u1b6e",
     "u1b6f", "u1b70", "u1b71", "u1b72", "u1b73", "u1b80", "u1b81", "u1ba2",
     "u1ba3", "u1ba4", "u1ba5", "u1ba8", "u1ba9", "u1bab", "u1bac", "u1bad",
     "u1be6", "u1be8", "u1be9", "u1bed", "u1bef", "u1bf0", "u1bf1", "u1c2c",
     "u1c2d", "u1c2e", "u1c2f", "u1c30", "u1c31", "u1c32", "u1c33", "u1c36",
     "u1c37", "u1c78", "u1c79", "u1c7a", "u1c7b", "u1c7c", "u1c7d", "u1cd0",
     "u1cd1", "u1cd2", "u1cd4", "u1cd5", "u1cd6", "u1cd7", "u1cd8", "u1cd9",
     "u1cda", "u1cdb", "u1cdc", "u1cdd", "u1cde", "u1cdf", "u1ce0", "u1ce2",
     "u1ce3", "u1ce4", "u1ce5", "u1ce6", "u1ce7", "u1ce8", "u1ced", "u1cf4",
     "u1cf8", "u1cf9", "u1d2c", "u1d2d", "u1d2e", "u1d2f", "u1d30", "u1d31",
     "u1d32", "u1d33", "u1d34", "u1d35", "u1d36", "u1d37", "u1d38", "u1d39",
     "u1d3a", "u1d3b", "u1d3c", "u1d3d", "u1d3e", "u1d3f", "u1d40", "u1d41",
     "u1d42", "u1d43", "u1d44", "u1d45", "u1d46", "u1d47", "u1d48", "u1d49",
     "u1d4a", "u1d4b", "u1d4c", "u1d4d", "u1d4e", "u1d4f", "u1d50", "u1d51",
     "u1d52", "u1d53", "u1d54", "u1d55", "u1d56", "u1d57", "u1d58", "u1d59",
     "u1d5a", "u1d5b", "u1d5c", "u1d5d", "u1d5e", "u1d5f", "u1d60", "u1d61",
     "u1d62", "u1d63", "u1d64", "u1d65", "u1d66", "u1d67", "u1d68", "u1d69",
     "u1d6a", "u1d78", "u1d9b", "u1d9c", "u1d9d", "u1d9e", "u1d9f", "u1da0",
     "u1da1", "u1da2", "u1da3", "u1da4", "u1da5", "u1da6", "u1da7", "u1da8",
     "u1da9", "u1daa", "u1dab", "u1dac", "u1dad", "u1dae", "u1daf", "u1db0",
     "u1db1", "u1db2", "u1db3", "u1db4", "u1db5", "u1db6", "u1db7", "u1db8",
     "u1db9", "u1dba", "u1dbb", "u1dbc", "u1dbd", "u1dbe", "u1dbf", "u1dc0",
     "u1dc1", "u1dc2", "u1dc3", "u1dc4", "u1dc5", "u1dc6", "u1dc7", "u1dc8",
     "u1dc9", "u1dca", "u1dcb", "u1dcc", "u1dcd", "u1dce", "u1dcf", "u1dd0",
     "u1dd1", "u1dd2", "u1dd3", "u1dd4", "u1dd5", "u1dd6", "u1dd7", "u1dd8",
     "u1dd9", "u1dda", "u1ddb", "u1ddc", "u1ddd", "u1dde", "u1ddf", "u1de0",
     "u1de1", "u1de2", "u1de3", "u1de4", "u1de5", "u1de6", "u1de7", "u1de8",
     "u1de9", "u1dea", "u1deb", "u1dec", "u1ded", "u1dee", "u1def", "u1df0",
     "u1df1", "u1df2", "u1df3", "u1df4", "u1df5", "u1df6", "u1df7", "u1df8",
     "u1df9", "u1dfa", "u1dfb", "u1dfc", "u1dfd", "u1dfe", "u1dff", "u1fbd",
     "u1fbf", "u1fc0", "u1fc1", "u1fcd", "u1fce", "u1fcf", "u1fdd", "u1fde",
     "u1fdf", "u1fed", "u1fee", "u1fef", "u1ffd", "u1ffe", "u200b", "u200c",
     "u200d", "u200e", "u200f", "u2018", "u2019", "u2024", "u2027", "u202a",
     "u202b", "u202c", "u202d", "u202e", "u2060", "u2061", "u2062", "u2063",
     "u2064", "u2066", "u2067", "u2068", "u2069", "u206a", "u206b", "u206c",
     "u206d", "u206e", "u206f", "u2071", "u207f", "u2090", "u2091", "u2092",
     "u2093", "u2094", "u2095", "u2096", "u2097", "u2098", "u2099", "u209a",
     "u209b", "u209c", "u20d0", "u20d1", "u20d2", "u20d3", "u20d4", "u20d5",
     "u20d6", "u20d7", "u20d8", "u20d9", "u20da", "u20db", "u20dc", "u20dd",
     "u20de", "u20df", "u20e0", "u20e1", "u20e2", "u20e3", "u20e4", "u20e5",
     "u20e6", "u20e7", "u20e8", "u20e9", "u20ea", "u20eb", "u20ec", "u20ed",
     "u20ee", "u20ef", "u20f0", "u2c7c", "u2c7d", "u2cef", "u2cf0", "u2cf1",
     "u2d6f", "u2d7f", "u2de0", "u2de1", "u2de2", "u2de3", "u2de4", "u2de5",
     "u2de6", "u2de7", "u2de8", "u2de9", "u2dea", "u2deb", "u2dec", "u2ded",
     "u2dee", "u2def", "u2df0", "u2df1", "u2df2", "u2df3", "u2df4", "u2df5",
     "u2df6", "u2df7", "u2df8", "u2df9", "u2dfa", "u2dfb", "u2dfc", "u2dfd",
     "u2dfe", "u2dff", "u2e2f", "u3005", "u302a", "u302b", "u302c", "u302d",
     "u3031", "u3032", "u3033", "u3034", "u3035", "u303b", "u3099", "u309a",
     "u309b", "u309c", "u309d", "u309e", "u30fc", "u30fd", "u30fe", "ua015",
     "ua4f8", "ua4f9", "ua4fa", "ua4fb", "ua4fc", "ua4fd", "ua60c", "ua66f",
     "ua670", "ua671", "ua672", "ua674", "ua675", "ua676", "ua677", "ua678",
     "ua679", "ua67a", "ua67b", "ua67c", "ua67d", "ua67f", "ua69c", "ua69d",
     "ua69e", "ua69f", "ua6f0", "ua6f1", "ua700", "ua701", "ua702", "ua703",
     "ua704", "ua705", "ua706", "ua707", "ua708", "ua709", "ua70a", "ua70b",
     "ua70c", "ua70d", "ua70e", "ua70f", "ua710", "ua711", "ua712", "ua713",
     "ua714", "ua715", "ua716", "ua717", "ua718", "ua719", "ua71a", "ua71b",
     "ua71c", "ua71d", "ua71e", "ua71f", "ua720", "ua721", "ua770", "ua788",
     "ua789", "ua78a", "ua7f2", "ua7f3", "ua7f4", "ua7f8", "ua7f9", "ua802",
     "ua806", "ua80b", "ua825", "ua826", "ua82c", "ua8c4", "ua8c5", "ua8e0",
     "ua8e1", "ua8e2", "ua8e3", "ua8e4", "ua8e5", "ua8e6", "ua8e7", "ua8e8",
     "ua8e9", "ua8ea", "ua8eb", "ua8ec", "ua8ed", "ua8ee", "ua8ef", "ua8f0",
     "ua8f1", "ua8ff", "ua926", "ua927", "ua928", "ua929", "ua92a", "ua92b",
     "ua92c", "ua92d", "ua947", "ua948", "ua949", "ua94a", "ua94b", "ua94c",
     "ua94d", "ua94e", "ua94f", "ua950", "ua951", "ua980", "ua981", "ua982",
     "ua9b3", "ua9b6", "ua9b7", "ua9b8", "ua9b9", "ua9bc", "ua9bd", "ua9cf",
     "ua9e5", "ua9e6", "uaa29", "uaa2a", "uaa2b", "uaa2c", "uaa2d", "uaa2e",
     "uaa31", "uaa32", "uaa35", "uaa36", "uaa43", "uaa4c", "uaa70", "uaa7c",
     "uaab0", "uaab2", "uaab3", "uaab4", "uaab7", "uaab8", "uaabe", "uaabf",
     "uaac1", "uaadd", "uaaec", "uaaed", "uaaf3", "uaaf4", "uaaf6", "uab5b",
     "uab5c", "uab5d", "uab5e", "uab5f", "uab69", "uab6a", "uab6b", "uabe5",
     "uabe8", "uabed", "ufb1e", "ufbb2", "ufbb3", "ufbb4", "ufbb5", "ufbb6",
     "ufbb7", "ufbb8", "ufbb9", "ufbba", "ufbbb", "ufbbc", "ufbbd", "ufbbe",
     "ufbbf", "ufbc0", "ufbc1", "ufbc2", "ufe00", "ufe01", "ufe02", "ufe03",
     "ufe04", "ufe05", "ufe06", "ufe07", "ufe08", "ufe09", "ufe0a", "ufe0b",
     "ufe0c", "ufe0d", "ufe0e", "ufe0f", "ufe13", "ufe20", "ufe21", "ufe22",
     "ufe23", "ufe24", "ufe25", "ufe26", "ufe27", "ufe28", "ufe29", "ufe2a",
     "ufe2b", "ufe2c", "ufe2d", "ufe2e", "ufe2f", "ufe52", "ufe55", "ufeff",
     "uff07", "uff0e", "uff1a", "uff3e", "uff40", "uff70", "uff9e", "uff9f",
     "uffe3", "ufff9", "ufffa", "ufffb", "u101fd", "u102e0", "u10376",
     "u10377", "u10378", "u10379", "u1037a", "u10780", "u10781", "u10782",
     "u10783", "u10784", "u10785", "u10787", "u10788", "u10789", "u1078a",
     "u1078b", "u1078c", "u1078d", "u1078e", "u1078f", "u10790", "u10791",
     "u10792", "u10793", "u10794", "u10795", "u10796", "u10797", "u10798",
     "u10799", "u1079a", "u1079b", "u1079c", "u1079d", "u1079e", "u1079f",
     "u107a0", "u107a1", "u107a2", "u107a3", "u107a4", "u107a5", "u107a6",
     "u107a7", "u107a8", "u107a9", "u107aa", "u107ab", "u107ac", "u107ad",
     "u107ae", "u107af", "u107b0", "u107b2", "u107b3", "u107b4", "u107b5",
     "u107b6", "u107b7", "u107b8", "u107b9", "u107ba", "u10a01", "u10a02",
     "u10a03", "u10a05", "u10a06", "u10a0c", "u10a0d", "u10a0e", "u10a0f",
     "u10a38", "u10a39", "u10a3a", "u10a3f", "u10ae5", "u10ae6", "u10d24",
     "u10d25", "u10d26", "u10d27", "u10eab", "u10eac", "u10f46", "u10f47",
     "u10f48", "u10f49", "u10f4a", "u10f4b", "u10f4c", "u10f4d", "u10f4e",
     "u10f4f", "u10f50", "u10f82", "u10f83", "u10f84", "u10f85", "u11001",
     "u11038", "u11039", "u1103a", "u1103b", "u1103c", "u1103d", "u1103e",
     "u1103f", "u11040", "u11041", "u11042", "u11043", "u11044", "u11045",
     "u11046", "u11070", "u11073", "u11074", "u1107f", "u11080", "u11081",
     "u110b3", "u110b4", "u110b5", "u110b6", "u110b9", "u110ba", "u110bd",
     "u110c2", "u110cd", "u11100", "u11101", "u11102", "u11127", "u11128",
     "u11129", "u1112a", "u1112b", "u1112d", "u1112e", "u1112f", "u11130",
     "u11131", "u11132", "u11133", "u11134", "u11173", "u11180", "u11181",
     "u111b6", "u111b7", "u111b8", "u111b9", "u111ba", "u111bb", "u111bc",
     "u111bd", "u111be", "u111c9", "u111ca", "u111cb", "u111cc", "u111cf",
     "u1122f", "u11230", "u11231", "u11234", "u11236", "u11237", "u1123e",
     "u112df", "u112e3", "u112e4", "u112e5", "u112e6", "u112e7", "u112e8",
     "u112e9", "u112ea", "u11300", "u11301", "u1133b", "u1133c", "u11340",
     "u11366", "u11367", "u11368", "u11369", "u1136a", "u1136b", "u1136c",
     "u11370", "u11371", "u11372", "u11373", "u11374", "u11438", "u11439",
     "u1143a", "u1143b", "u1143c", "u1143d", "u1143e", "u1143f", "u11442",
     "u11443", "u11444", "u11446", "u1145e", "u114b3", "u114b4", "u114b5",
     "u114b6", "u114b7", "u114b8", "u114ba", "u114bf", "u114c0", "u114c2",
     "u114c3", "u115b2", "u115b3", "u115b4", "u115b5", "u115bc", "u115bd",
     "u115bf", "u115c0", "u115dc", "u115dd", "u11633", "u11634", "u11635",
     "u11636", "u11637", "u11638", "u11639", "u1163a", "u1163d", "u1163f",
     "u11640", "u116ab", "u116ad", "u116b0", "u116b1", "u116b2", "u116b3",
     "u116b4", "u116b5", "u116b7", "u1171d", "u1171e", "u1171f", "u11722",
     "u11723", "u11724", "u11725", "u11727", "u11728", "u11729", "u1172a",
     "u1172b", "u1182f", "u11830", "u11831", "u11832", "u11833", "u11834",
     "u11835", "u11836", "u11837", "u11839", "u1183a", "u1193b", "u1193c",
     "u1193e", "u11943", "u119d4", "u119d5", "u119d6", "u119d7", "u119da",
     "u119db", "u119e0", "u11a01", "u11a02", "u11a03", "u11a04", "u11a05",
     "u11a06", "u11a07", "u11a08", "u11a09", "u11a0a", "u11a33", "u11a34",
     "u11a35", "u11a36", "u11a37", "u11a38", "u11a3b", "u11a3c", "u11a3d",
     "u11a3e", "u11a47", "u11a51", "u11a52", "u11a53", "u11a54", "u11a55",
     "u11a56", "u11a59", "u11a5a", "u11a5b", "u11a8a", "u11a8b", "u11a8c",
     "u11a8d", "u11a8e", "u11a8f", "u11a90", "u11a91", "u11a92", "u11a93",
     "u11a94", "u11a95", "u11a96", "u11a98", "u11a99", "u11c30", "u11c31",
     "u11c32", "u11c33", "u11c34", "u11c35", "u11c36", "u11c38", "u11c39",
     "u11c3a", "u11c3b", "u11c3c", "u11c3d", "u11c3f", "u11c92", "u11c93",
     "u11c94", "u11c95", "u11c96", "u11c97", "u11c98", "u11c99", "u11c9a",
     "u11c9b", "u11c9c", "u11c9d", "u11c9e", "u11c9f", "u11ca0", "u11ca1",
     "u11ca2", "u11ca3", "u11ca4", "u11ca5", "u11ca6", "u11ca7", "u11caa",
     "u11cab", "u11cac", "u11cad", "u11cae", "u11caf", "u11cb0", "u11cb2",
     "u11cb3", "u11cb5", "u11cb6", "u11d31", "u11d32", "u11d33", "u11d34",
     "u11d35", "u11d36", "u11d3a", "u11d3c", "u11d3d", "u11d3f", "u11d40",
     "u11d41", "u11d42", "u11d43", "u11d44", "u11d45", "u11d47", "u11d90",
     "u11d91", "u11d95", "u11d97", "u11ef3", "u11ef4", "u13430", "u13431",
     "u13432", "u13433", "u13434", "u13435", "u13436", "u13437", "u13438",
     "u16af0", "u16af1", "u16af2", "u16af3", "u16af4", "u16b30", "u16b31",
     "u16b32", "u16b33", "u16b34", "u16b35", "u16b36", "u16b40", "u16b41",
     "u16b42", "u16b43", "u16f4f", "u16f8f", "u16f90", "u16f91", "u16f92",
     "u16f93", "u16f94", "u16f95", "u16f96", "u16f97", "u16f98", "u16f99",
     "u16f9a", "u16f9b", "u16f9c", "u16f9d", "u16f9e", "u16f9f", "u16fe0",
     "u16fe1", "u16fe3", "u16fe4", "u1aff0", "u1aff1", "u1aff2", "u1aff3",
     "u1aff5", "u1aff6", "u1aff7", "u1aff8", "u1aff9", "u1affa", "u1affb",
     "u1affd", "u1affe", "u1bc9d", "u1bc9e", "u1bca0", "u1bca1", "u1bca2",
     "u1bca3", "u1cf00", "u1cf01", "u1cf02", "u1cf03", "u1cf04", "u1cf05",
     "u1cf06", "u1cf07", "u1cf08", "u1cf09", "u1cf0a", "u1cf0b", "u1cf0c",
     "u1cf0d", "u1cf0e", "u1cf0f", "u1cf10", "u1cf11", "u1cf12", "u1cf13",
     "u1cf14", "u1cf15", "u1cf16", "u1cf17", "u1cf18", "u1cf19", "u1cf1a",
     "u1cf1b", "u1cf1c", "u1cf1d", "u1cf1e", "u1cf1f", "u1cf20", "u1cf21",
     "u1cf22", "u1cf23", "u1cf24", "u1cf25", "u1cf26", "u1cf27", "u1cf28",
     "u1cf29", "u1cf2a", "u1cf2b", "u1cf2c", "u1cf2d", "u1cf30", "u1cf31",
     "u1cf32", "u1cf33", "u1cf34", "u1cf35", "u1cf36", "u1cf37", "u1cf38",
     "u1cf39", "u1cf3a", "u1cf3b", "u1cf3c", "u1cf3d", "u1cf3e", "u1cf3f",
     "u1cf40", "u1cf41", "u1cf42", "u1cf43", "u1cf44", "u1cf45", "u1cf46",
     "u1d167", "u1d168", "u1d169", "u1d173", "u1d174", "u1d175", "u1d176",
     "u1d177", "u1d178", "u1d179", "u1d17a", "u1d17b", "u1d17c", "u1d17d",
     "u1d17e", "u1d17f", "u1d180", "u1d181", "u1d182", "u1d185", "u1d186",
     "u1d187", "u1d188", "u1d189", "u1d18a", "u1d18b", "u1d1aa", "u1d1ab",
     "u1d1ac", "u1d1ad", "u1d242", "u1d243", "u1d244", "u1da00", "u1da01",
     "u1da02", "u1da03", "u1da04", "u1da05", "u1da06", "u1da07", "u1da08",
     "u1da09", "u1da0a", "u1da0b", "u1da0c", "u1da0d", "u1da0e", "u1da0f",
     "u1da10", "u1da11", "u1da12", "u1da13", "u1da14", "u1da15", "u1da16",
     "u1da17", "u1da18", "u1da19", "u1da1a", "u1da1b", "u1da1c", "u1da1d",
     "u1da1e", "u1da1f", "u1da20", "u1da21", "u1da22", "u1da23", "u1da24",
     "u1da25", "u1da26", "u1da27", "u1da28", "u1da29", "u1da2a", "u1da2b",
     "u1da2c", "u1da2d", "u1da2e", "u1da2f", "u1da30", "u1da31", "u1da32",
     "u1da33", "u1da34", "u1da35", "u1da36", "u1da3b", "u1da3c", "u1da3d",
     "u1da3e", "u1da3f", "u1da40", "u1da41", "u1da42", "u1da43", "u1da44",
     "u1da45", "u1da46", "u1da47", "u1da48", "u1da49", "u1da4a", "u1da4b",
     "u1da4c", "u1da4d", "u1da4e", "u1da4f", "u1da50", "u1da51", "u1da52",
     "u1da53", "u1da54", "u1da55", "u1da56", "u1da57", "u1da58", "u1da59",
     "u1da5a", "u1da5b", "u1da5c", "u1da5d", "u1da5e", "u1da5f", "u1da60",
     "u1da61", "u1da62", "u1da63", "u1da64", "u1da65", "u1da66", "u1da67",
     "u1da68", "u1da69", "u1da6a", "u1da6b", "u1da6c", "u1da75", "u1da84",
     "u1da9b", "u1da9c", "u1da9d", "u1da9e", "u1da9f", "u1daa1", "u1daa2",
     "u1daa3", "u1daa4", "u1daa5", "u1daa6", "u1daa7", "u1daa8", "u1daa9",
     "u1daaa", "u1daab", "u1daac", "u1daad", "u1daae", "u1daaf", "u1e000",
     "u1e001", "u1e002", "u1e003", "u1e004", "u1e005", "u1e006", "u1e008",
     "u1e009", "u1e00a", "u1e00b", "u1e00c", "u1e00d", "u1e00e", "u1e00f",
     "u1e010", "u1e011", "u1e012", "u1e013", "u1e014", "u1e015", "u1e016",
     "u1e017", "u1e018", "u1e01b", "u1e01c", "u1e01d", "u1e01e", "u1e01f",
     "u1e020", "u1e021", "u1e023", "u1e024", "u1e026", "u1e027", "u1e028",
     "u1e029", "u1e02a", "u1e130", "u1e131", "u1e132", "u1e133", "u1e134",
     "u1e135", "u1e136", "u1e137", "u1e138", "u1e139", "u1e13a", "u1e13b",
     "u1e13c", "u1e13d", "u1e2ae", "u1e2ec", "u1e2ed", "u1e2ee", "u1e2ef",
     "u1e8d0", "u1e8d1", "u1e8d2", "u1e8d3", "u1e8d4", "u1e8d5", "u1e8d6",
     "u1e944", "u1e945", "u1e946", "u1e947", "u1e948", "u1e949", "u1e94a",
     "u1e94b", "u1f3fb", "u1f3fc", "u1f3fd", "u1f3fe", "u1f3ff", "ue0001",
     "ue0020", "ue0021", "ue0022", "ue0023", "ue0024", "ue0025", "ue0026",
     "ue0027", "ue0028", "ue0029", "ue002a", "ue002b", "ue002c", "ue002d",
     "ue002e", "ue002f", "ue0030", "ue0031", "ue0032", "ue0033", "ue0034",
     "ue0035", "ue0036", "ue0037", "ue0038", "ue0039", "ue003a", "ue003b",
     "ue003c", "ue003d", "ue003e", "ue003f", "ue0040", "ue0041", "ue0042",
     "ue0043", "ue0044", "ue0045", "ue0046", "ue0047", "ue0048", "ue0049",
     "ue004a", "ue004b", "ue004c", "ue004d", "ue004e", "ue004f", "ue0050",
     "ue0051", "ue0052", "ue0053", "ue0054", "ue0055", "ue0056", "ue0057",
     "ue0058", "ue0059", "ue005a", "ue005b", "ue005c", "ue005d", "ue005e",
     "ue005f", "ue0060", "ue0061", "ue0062", "ue0063", "ue0064", "ue0065",
     "ue0066", "ue0067", "ue0068", "ue0069", "ue006a", "ue006b", "ue006c",
     "ue006d", "ue006e", "ue006f", "ue0070", "ue0071", "ue0072", "ue0073",
     "ue0074", "ue0075", "ue0076", "ue0077", "ue0078", "ue0079", "ue007a",
     "ue007b", "ue007c", "ue007d", "ue007e", "ue007f", "ue0100", "ue0101",
     "ue0102", "ue0103", "ue0104", "ue0105", "ue0106", "ue0107", "ue0108",
     "ue0109", "ue010a", "ue010b", "ue010c", "ue010d", "ue010e", "ue010f",
     "ue0110", "ue0111", "ue0112", "ue0113", "ue0114", "ue0115", "ue0116",
     "ue0117", "ue0118", "ue0119", "ue011a", "ue011b", "ue011c", "ue011d",
     "ue011e", "ue011f", "ue0120", "ue0121", "ue0122", "ue0123", "ue0124",
     "ue0125", "ue0126", "ue0127", "ue0128", "ue0129", "ue012a", "ue012b",
     "ue012c", "ue012d", "ue012e", "ue012f", "ue0130", "ue0131", "ue0132",
     "ue0133", "ue0134", "ue0135", "ue0136", "ue0137", "ue0138", "ue0139",
     "ue013a", "ue013b", "ue013c", "ue013d", "ue013e", "ue013f", "ue0140",
     "ue0141", "ue0142", "ue0143", "ue0144", "ue0145", "ue0146", "ue0147",
     "ue0148", "ue0149", "ue014a", "ue014b", "ue014c", "ue014d", "ue014e",
     "ue014f", "ue0150", "ue0151", "ue0152", "ue0153", "ue0154", "ue0155",
     "ue0156", "ue0157", "ue0158", "ue0159", "ue015a", "ue015b", "ue015c",
     "ue015d", "ue015e", "ue015f", "ue0160", "ue0161", "ue0162", "ue0163",
     "ue0164", "ue0165", "ue0166", "ue0167", "ue0168", "ue0169", "ue016a",
     "ue016b", "ue016c", "ue016d", "ue016e", "ue016f", "ue0170", "ue0171",
     "ue0172", "ue0173", "ue0174", "ue0175", "ue0176", "ue0177", "ue0178",
     "ue0179", "ue017a", "ue017b", "ue017c", "ue017d", "ue017e", "ue017f",
     "ue0180", "ue0181", "ue0182", "ue0183", "ue0184", "ue0185", "ue0186",
     "ue0187", "ue0188", "ue0189", "ue018a", "ue018b", "ue018c", "ue018d",
     "ue018e", "ue018f", "ue0190", "ue0191", "ue0192", "ue0193", "ue0194",
     "ue0195", "ue0196", "ue0197", "ue0198", "ue0199", "ue019a", "ue019b",
     "ue019c", "ue019d", "ue019e", "ue019f", "ue01a0", "ue01a1", "ue01a2",
     "ue01a3", "ue01a4", "ue01a5", "ue01a6", "ue01a7", "ue01a8", "ue01a9",
     "ue01aa", "ue01ab", "ue01ac", "ue01ad", "ue01ae", "ue01af", "ue01b0",
     "ue01b1", "ue01b2", "ue01b3", "ue01b4", "ue01b5", "ue01b6", "ue01b7",
     "ue01b8", "ue01b9", "ue01ba", "ue01bb", "ue01bc", "ue01bd", "ue01be",
     "ue01bf", "ue01c0", "ue01c1", "ue01c2", "ue01c3", "ue01c4", "ue01c5",
     "ue01c6", "ue01c7", "ue01c8", "ue01c9", "ue01ca", "ue01cb", "ue01cc",
     "ue01cd", "ue01ce", "ue01cf", "ue01d0", "ue01d1", "ue01d2", "ue01d3",
     "ue01d4", "ue01d5", "ue01d6", "ue01d7", "ue01d8", "ue01d9", "ue01da",
     "ue01db", "ue01dc", "ue01dd", "ue01de", "ue01df", "ue01e0", "ue01e1",
     "ue01e2", "ue01e3", "ue01e4", "ue01e5", "ue01e6", "ue01e7", "ue01e8",
     "ue01e9", "ue01ea", "ue01eb", "ue01ec", "ue01ed", "ue01ee", "ue01ef"}

\* the cased characters that are not case-ignorable
Cased ==
    {"A", "B", "C", "D", "E", "F", "G", "H", "I", "J", "K", "L", "M", "N",
     "O", "P", "Q", "R", "S", "T", "U", "V", "W", "X", "Y", "Z", "a", "b",
     "c", "d", "e", "f", "g", "h", "i", "j", "k", "l", "m", "n", "o", "p",
     "q", "r", "s", "t", "u", "v", "w", "x", "y", "z", "u00aa", "u00b5",
     "u00ba", "u00c0", "u00c1", "u00c2", "u00c3", "u00c4", "u00c5", "u00c6",
     "u00c7", "u00c8", "u00c9", "u00ca", "u00cb", "u00cc", "u00cd", "u00ce",
     "u00cf", "u00d0", "u00d1", "u00d2", "u00d3", "u00d4", "u00d5", "u00d6",
     "u00d8", "u00d9", "u00da", "u00db", "u00dc", "u00dd", "u00de", "u00df",
     "u00e0", "u00e1", "u00e2", "u00e3", "u00e4", "u00e5", "u00e6", "u00e7",
     "u00e8", "u00e9", "u00ea", "u00eb", "u00ec", "u00ed", "u00ee", "u00ef",
     "u00f0", "u00f1", "u00f2", "u00f3", "u00f4", "u00f5", "u00f6", "u00f8",
     "u00f9", "u00fa", "u00fb", "u00fc", "u00fd", "u00fe", "u00ff", "u0100",
     "u0101", "u0102", "u0103", "u0104", "u0105", "u0106", "u0107", "u0108",
     "u0109", "u010a", "u010b", "u010c", "u010d", "u010e", "u010f", "u0110",
     "u0111", "u0112", "u0113", "u0114", "u0115", "u0116", "u0117", "u0118",
     "u0119", "u011a", "u011b", "u011c", "u011d", "u011e", "u011f", "u0120",
     "u0121", "u0122", "u0123", "u0124", "u0125", "u0126", "u0127", "u0128",
     "u0129", "u012a", "u012b", "u012c", "u012d", "u012e", "u012f", "u0130",
     "u0131", "u0132", "u0133", "u0134", "u0135", "u0136", "u0137", "u0138",
     "u0139", "u013a", "u013b", "u013c", "u013d", "u013e", "u013f", "u0140",
     "u0141", "u0142", "u0143", "u0144", "u0145", "u0146", "u0147", "u0148",
     "u0149", "u014a", "u014b", "u014c", "u014d", "u014e", "u014f", "u0150",
     "u0151", "u0152", "u0153", "u0154", "u0155", "u0156", "u0157", "u0158",
     "u0159", "u015a", "u015b", "u015c", "u015d", "u015e", "u015f", "u0160",
     "u0161", "u0162", "u0163", "u0164", "u0165", "u0166", "u0167", "u0168",
     "u0169", "u016a", "u016b", "u016c", "u016d", "u016e", "u016f", "u0170",
     "u0171", "u0172", "u0173", "u0174", "u0175", "u0176", "u0177", "u0178",
     "u0179", "u017a", "u017b", "u017c", "u017d", "u017e", "u017f", "u0180",
     "u0181", "u0182", "u0183", "u0184", "u0185", "u0186", "u0187", "u0188",
     "u0189", "u018a", "u018b", "u018c", "u018d", "u018e", "u018f", "u0190",
     "u0191", "u0192", "u0193", "u0194", "u0195", "u0196", "u0197", "u0198",
     "u0199", "u019a", "u019b", "u019c", "u019d", "u019e", "u019f", "u01a0",
     "u01a1", "u01a2", "u01a3", "u01a4", "u01a5", "u01a6", "u01a7", "u01a8",
     "u01a9", "u01aa", "u01ab", "u01ac", "u01ad", "u01ae", "u01af", "u01b0",
     "u01b1", "u01b2", "u01b3", "u01b4", "u01b5", "u01b6", "u01b7", "u01b8",
     "u01b9", "u01ba", "u01bc", "u01bd", "u01be", "u01bf", "u01c4", "u01c5",
     "u01c6", "u01c7", "u01c8", "u01c9", "u01ca", "u01cb", "u01cc", "u01cd",
     "u01ce", "u01cf", "u01d0", "u01d1", "u01d2", "u01d3", "u01d4", "u01d5",
     "u01d6", "u01d7", "u01d8", "u01d9", "u01da", "u01db", "u01dc", "u01dd",
     "u01de", "u01df", "u01e0", "u01e1", "u01e2", "u01e3", "u01e4", "u01e5",
     "u01e6", "u01e7", "u01e8", "u01e9", "u01ea", "u01eb", "u01ec", "u01ed",
     "u01ee", "u01ef", "u01f0", "u01f1", "u01f2", "u01f3", "u01f4", "u01f5",
     "u01f6", "u01f7", "u01f8", "u01f9", "u01fa", "u01fb", "u01fc", "u01fd",
     "u01fe", "u01ff", "u0200", "u0201", "u0202", "u0203", "u0204", "u0205",
     "u0206", "u0207", "u0208", "u0209", "u020a", "u020b", "u020c", "u020d",
     "u020e", "u020f", "u0210", "u0211", "u0212", "u0213", "u0214", "u0215",
     "u0216", "u0217", "u0218", "u0219", "u021a", "u021b", "u021c", "u021d",
     "u021e", "u021f", "u0220", "u0221", "u0222", "u0223", "u0224", "u0225",
     "u0226", "u0227", "u0228", "u0229", "u022a", "u022b", "u022c", "u022d",
     "u022e", "u022f", "u0230", "u0231", "u0232", "u0233", "u0234", "u0235",
     "u0236", "u0237", "u0238", "u0239", "u023a", "u023b", "u023c", "u023d",
     "u023e", "u023f", "u0240", "u0241", "u0242", "u0243", "u0244", "u0245",
     "u0246", "u0247", "u0248", "u0249", "u024a", "u024b", "u024c", "u024d",
     "u024e", "u024f", "u0250", "u0251", "u0252", "u0253", "u0254", "u0255",
     "u0256", "u0257", "u0258", "u0259", "u025a", "u025b", "u025c", "u025d",
     "u025e", "u025f", "u0260", "u0261", "u0262", "u0263", "u0264", "u0265",
     "u0266", "u0267", "u0268", "u0269", "u026a", "u026b", "u026c", "u026d",
     "u026e", "u026f", "u0270", "u0271", "u0272", "u0273", "u0274", "u0275",
     "u0276", "u0277", "u0278", "u0279", "u027a", "u027b", "u027c", "u027d",
     "u027e", "u027f", "u0280", "u0281", "u0282", "u0283", "u0284", "u0285",
     "u0286", "u0287", "u0288", "u0289", "u028a", "u028b", "u028c", "u028d",
     "u028e", "u028f", "u0290", "u0291", "u0292", "u0293", "u0295", "u0296",
     "u0297", "u0298", "u0299", "u029a", "u029b", "u029c", "u029d", "u029e",
     "u029f", "u02a0", "u02a1", "u02a2", "u02a3", "u02a4", "u02a5", "u02a6",
     "u02a7", "u02a8", "u02a9", "u02aa", "u02ab", "u02ac", "u02ad", "u02ae",
     "u02af", "u0370", "u0371", "u0372", "u0373", "u0376", "u0377", "u037b",
     "u037c", "u037d", "u037f", "u0386", "u0388", "u0389", "u038a", "u038c",
     "u038e", "u038f", "u0390", "u0391", "u0392", "u0393", "u0394", "u0395",
     "u0396", "u0397", "u0398", "u0399", "u039a", "u039b", "u039c", "u039d",
     "u039e", "u039f", "u03a0", "u03a1", "u03a3", "u03a4", "u03a5", "u03a6",
     "u03a7", "u03a8", "u03a9", "u03aa", "u03ab", "u03ac", "u03ad", "u03ae",
     "u03af", "u03b0", "u03b1", "u03b2", "u03b3", "u03b4", "u03b5", "u03b6",
     "u03b7", "u03b8", "u03b9", "u03ba", "u03bb", "u03bc", "u03bd", "u03be",
     "u03bf", "u03c0", "u03c1", "u03c2", "u03c3", "u03c4", "u03c5", "u03c6",
     "u03c7", "u03c8", "u03c9", "u03ca", "u03cb", "u03cc", "u03cd", "u03ce",
     "u03cf", "u03d0", "u03d1", "u03d2", "u03d3", "u03d4", "u03d5", "u03d6",
     "u03d7", "u03d8", "u03d9", "u03da", "u03db", "u03dc", "u03dd", "u03de",
     "u03df", "u03e0", "u03e1", "u03e2", "u03e3", "u03e4", "u03e5", "u03e6",
     "u03e7", "u03e8", "u03e9", "u03ea", "u03eb", "u03ec", "u03ed", "u03ee",
     "u03ef", "u03f0", "u03f1", "u03f2", "u03f3", "u03f4", "u03f5", "u03f7",
     "u03f8", "u03f9", "u03fa", "u03fb", "u03fc", "u03fd", "u03fe", "u03ff",
     "u0400", "u0401", "u0402", "u0403", "u0404", "u0405", "u0406", "u0407",
     "u0408", "u0409", "u040a", "u040b", "u040c", "u040d", "u040e", "u040f",
     "u0410", "u0411", "u0412", "u0413", "u0414", "u0415", "u0416", "u0417",
     "u0418", "u0419", "u041a", "u041b", "u041c", "u041d", "u041e", "u041f",
     "u0420", "u0421", "u0422", "u0423", "u0424", "u0425", "u0426", "u0427",
     "u0428", "u0429", "u042a", "u042b", "u042c", "u042d", "u042e", "u042f",
     "u0430", "u0431", "u0432", "u0433", "u0434", "u0435", "u0436", "u0437",
     "u0438", "u0439", "u043a", "u043b", "u043c", "u043d", "u043e", "u043f",
     "u0440", "u0441", "u0442", "u0443", "u0444", "u0445", "u0446", "u0447",
     "u0448", "u0449", "u044a", "u044b", "u044c", "u044d", "u044e", "u044f",
     "u0450", "u0451", "u0452", "u0453", "u0454", "u0455", "u0456", "u0457",
     "u0458", "u0459", "u045a", "u045b", "u045c", "u045d", "u045e", "u045f",
     "u0460", "u0461", "u0462", "u0463", "u0464", "u0465", "u0466", "u0467",
     "u0468", "u0469", "u046a", "u046b", "u046c", "u046d", "u046e", "u046f",
     "u0470", "u0471", "u0472", "u0473", "u0474", "u0475", "u0476", "u0477",
     "u0478", "u0479", "u047a", "u047b", "u047c", "u047d", "u047e", "u047f",
     "u0480", "u0481", "u048a", "u048b", "u048c", "u048d", "u048e", "u048f",
     "u0490", "u0491", "u0492", "u0493", "u0494", "u0495", "u0496", "u0497",
     "u0498", "u0499", "u049a", "u049b", "u049c", "u049d", "u049e", "u049f",
     "u04a0", "u04a1", "u04a2", "u04a3", "u04a4", "u04a5", "u04a6", "u04a7",
     "u04a8", "u04a9", "u04aa", "u04ab", "u04ac", "u04ad", "u04ae", "u04af",
     "u04b0", "u04b1", "u04b2", "u04b3", "u04b4", "u04b5", "u04b6", "u04b7",
     "u04b8", "u04b9", "u04ba", "u04bb", "u04bc", "u04bd", "u04be", "u04bf",
     "u04c0", "u04c1", "u04c2", "u04c3", "u04c4", "u04c5", "u04c6", "u04c7",
     "u04c8", "u04c9", "u04ca", "u04cb", "u04cc", "u04cd", "u04ce", "u04cf",
     "u04d0", "u04d1", "u04d2", "u04d3", "u04d4", "u04d5", "u04d6", "u04d7",
     "u04d8", "u04d9", "u04da", "u04db", "u04dc", "u04dd", "u04de", "u04df",
     "u04e0", "u04e1", "u04e2", "u04e3", "u04e4", "u04e5", "u04e6", "u04e7",
     "u04e8", "u04e9", "u04ea", "u04eb", "u04ec", "u04ed", "u04ee", "u04ef",
     "u04f0", "u04f1", "u04f2", "u04f3", "u04f4", "u04f5", "u04f6", "u04f7",
     "u04f8", "u04f9", "u04fa", "u04fb", "u04fc", "u04fd", "u04fe", "u04ff",
     "u0500", "u0501", "u0502", "u0503", "u0504", "u0505", "u0506", "u0507",
     "u0508", "u0509", "u050a", "u050b", "u050c", "u050d", "u050e", "u050f",
     "u0510", "u0511", "u0512", "u0513", "u0514", "u0515", "u0516", "u0517",
     "u0518", "u0519", "u051a", "u051b", "u051c", "u051d", "u051e", "u051f",
     "u0520", "u0521", "u0522", "u0523", "u0524", "u0525", "u0526", "u0527",
     "u0528", "u0529", "u052a", "u052b", "u052c", "u052d", "u052e", "u052f",
     "u0531", "u0532", "u0533", "u0534", "u0535", "u0536", "u0537", "u0538",
     "u0539", "u053a", "u053b", "u053c", "u053d", "u053e", "u053f", "u0540",
     "u0541", "u0542", "u0543", "u0544", "u0545", "u0546", "u0547", "u0548",
     "u0549", "u054a", "u054b", "u054c", "u054d", "u054e", "u054f", "u0550",
     "u0551", "u0552", "u0553", "u0554", "u0555", "u0556", "u0560", "u0561",
     "u0562", "u0563", "u0564", "u0565", "u0566", "u0567", "u0568", "u0569",
     "u056a", "u056b", "u056c", "u056d", "u056e", "u056f", "u0570", "u0571",
     "u0572", "u0573", "u0574", "u0575", "u0576", "u0577", "u0578", "u0579",
     "u057a", "u057b", "u057c", "u057d", "u057e", "u057f", "u0580", "u0581",
     "u0582", "u0583", "u0584", "u0585", "u0586", "u0587", "u0588", "u10a0",
     "u10a1", "u10a2", "u10a3", "u10a4", "u10a5", "u10a6", "u10a7", "u10a8",
     "u10a9", "u10aa", "u10ab", "u10ac", "u10ad", "u10ae", "u10af", "u10b0",
     "u10b1", "u10b2", "u10b3", "u10b4", "u10b5", "u10b6", "u10b7", "u10b8",
     "u10b9", "u10ba", "u10bb", "u10bc", "u10bd", "u10be", "u10bf", "u10c0",
     "u10c1", "u10c2", "u10c3", "u10c4", "u10c5", "u10c7", "u10cd", "u10d0",
     "u10d1", "u10d2", "u10d3", "u10d4", "u10d5", "u10d6", "u10d7", "u10d8",
     "u10d9", "u10da", "u10db", "u10dc", "u10dd", "u10de", "u10df", "u10e0",
     "u10e1", "u10e2", "u10e3", "u10e4", "u10e5", "u10e6", "u10e7", "u10e8",
     "u10e9", "u10ea", "u10eb", "u10ec", "u10ed", "u10ee", "u10ef", "u10f0",
     "u10f1", "u10f2", "u10f3", "u10f4", "u10f5", "u10f6", "u10f7", "u10f8",
     "u10f9", "u10fa", "u10fd", "u10fe", "u10ff", "u13a0", "u13a1", "u13a2",
     "u13a3", "u13a4", "u13a5", "u13a6", "u13a7", "u13a8", "u13a9", "u13aa",
     "u13ab", "u13ac", "u13ad", "u13ae", "u13af", "u13b0", "u13b1", "u13b2",
     "u13b3", "u13b4", "u13b5", "u13b6", "u13b7", "u13b8", "u13b9", "u13ba",
     "u13bb", "u13bc", "u13bd", "u13be", "u13bf", "u13c0", "u13c1", "u13c2",
     "u13c3", "u13c4", "u13c5", "u13c6", "u13c7", "u13c8", "u13c9", "u13ca",
     "u13cb", "u13cc", "u13cd", "u13ce", "u13cf", "u13d0", "u13d1", "u13d2",
     "u13d3", "u13d4", "u13d5", "u13d6", "u13d7", "u13d8", "u13d9", "u13da",
     "u13db", "u13dc", "u13dd", "u13de", "u13df", "u13e0", "u13e1", "u13e2",
     "u13e3", "u13e4", "u13e5", "u13e6", "u13e7", "u13e8", "u13e9", "u13ea",
     "u13eb", "u13ec", "u13ed", "u13ee", "u13ef", "u13f0", "u13f1", "u13f2",
     "u13f3", "u13f4", "u13f5", "u13f8", "u13f9", "u13fa", "u13fb", "u13fc",
     "u13fd", "u1c80", "u1c81", "u1c82", "u1c83", "u1c84", "u1c85", "u1c86",
     "u1c87", "u1c88", "u1c90", "u1c91", "u1c92", "u1c93", "u1c94", "u1c95",
     "u1c96", "u1c97", "u1c98", "u1c99", "u1c9a", "u1c9b", "u1c9c", "u1c9d",
     "u1c9e", "u1c9f", "u1ca0", "u1ca1", "u1ca2", "u1ca3", "u1ca4", "u1ca5",
     "u1ca6", "u1ca7", "u1ca8", "u1ca9", "u1caa", "u1cab", "u1cac", "u1cad",
     "u1cae", "u1caf", "u1cb0", "u1cb1", "u1cb2", "u1cb3", "u1cb4", "u1cb5",
     "u1cb6", "u1cb7", "u1cb8", "u1cb9", "u1cba", "u1cbd", "u1cbe", "u1cbf",
     "u1d00", "u1d01", "u1d02", "u1d03", "u1d04", "u1d05", "u1d06", "u1d07",
     "u1d08", "u1d09", "u1d0a", "u1d0b", "u1d0c", "u1d0d", "u1d0e", "u1d0f",
     "u1d10", "u1d11", "u1d12", "u1d13", "u1d14", "u1d15", "u1d16", "u1d17",
     "u1d18", "u1d19", "u1d1a", "u1d1b", "u1d1c", "u1d1d", "u1d1e", "u1d1f",
     "u1d20", "u1d21", "u1d22", "u1d23", "u1d24", "u1d25", "u1d26", "u1d27",
     "u1d28", "u1d29", "u1d2a", "u1d2b", "u1d6b", "u1d6c", "u1d6d", "u1d6e",
     "u1d6f", "u1d70", "u1d71", "u1d72", "u1d73", "u1d74", "u1d75", "u1d76",
     "u1d77", "u1d79", "u1d7a", "u1d7b", "u1d7c", "u1d7d", "u1d7e", "u1d7f",
     "u1d80", "u1d81", "u1d82", "u1d83", "u1d84", "u1d85", "u1d86", "u1d87",
     "u1d88", "u1d89", "u1d8a", "u1d8b", "u1d8c", "u1d8d", "u1d8e", "u1d8f",
     "u1d90", "u1d91", "u1d92", "u1d93", "u1d94", "u1d95", "u1d96", "u1d97",
     "u1d98", "u1d99", "u1d9a", "u1e00", "u1e01", "u1e02", "u1e03", "u1e04",
     "u1e05", "u1e06", "u1e07", "u1e08", "u1e09", "u1e0a", "u1e0b", "u1e0c",
     "u1e0d", "u1e0e", "u1e0f", "u1e10", "u1e11", "u1e12", "u1e13", "u1e14",
     "u1e15", "u1e16", "u1e17", "u1e18", "u1e19", "u1e1a", "u1e1b", "u1e1c",
     "u1e1d", "u1e1e", "u1e1f", "u1e20", "u1e21", "u1e22", "u1e23", "u1e24",
     "u1e25", "u1e26", "u1e27", "u1e28", "u1e29", "u1e2a", "u1e2b", "u1e2c",
     "u1e2d", "u1e2e", "u1e2f", "u1e30", "u1e31", "u1e32", "u1e33", "u1e34",
     "u1e35", "u1e36", "u1e37", "u1e38", "u1e39", "u1e3a", "u1e3b", "u1e3c",
     "u1e3d", "u1e3e", "u1e3f", "u1e40", "u1e41", "u1e42", "u1e43", "u1e44",
     "u1e45", "u1e46", "u1e47", "u1e48", "u1e49", "u1e4a", "u1e4b", "u1e4c",
     "u1e4d", "u1e4e", "u1e4f", "u1e50", "u1e51", "u1e52", "u1e53", "u1e54",
     "u1e55", "u1e56", "u1e57", "u1e58", "u1e59", "u1e5a", "u1e5b", "u1e5c",
     "u1e5d", "u1e5e", "u1e5f", "u1e60", "u1e61", "u1e62", "u1e63", "u1e64",
     "u1e65", "u1e66", "u1e67", "u1e68", "u1e69", "u1e6a", "u1e6b", "u1e6c",
     "u1e6d", "u1e6e", "u1e6f", "u1e70", "u1e71", "u1e72", "u1e73", "u1e74",
     "u1e75", "u1e76", "u1e77", "u1e78", "u1e79", "u1e7a", "u1e7b", "u1e7c",
     "u1e7d", "u1e7e", "u1e7f", "u1e80", "u1e81", "u1e82", "u1e83", "u1e84",
     "u1e85", "u1e86", "u1e87", "u1e88", "u1e89", "u1e8a", "u1e8b", "u1e8c",
     "u1e8d", "u1e8e", "u1e8f", "u1e90", "u1e91", "u1e92", "u1e93", "u1e94",
     "u1e95", "u1e96", "u1e97", "u1e98", "u1e99", "u1e9a", "u1e9b", "u1e9c",
     "u1e9d", "u1e9e", "u1e9f", "u1ea0", "u1ea1", "u1ea2", "u1ea3", "u1ea4",
     "u1ea5", "u1ea6", "u1ea7", "u1ea8", "u1ea9", "u1eaa", "u1eab", "u1eac",
     "u1ead", "u1eae", "u1eaf", "u1eb0", "u1eb1", "u1eb2", "u1eb3", "u1eb4",
     "u1eb5", "u1eb6", "u1eb7", "u1eb8", "u1eb9", "u1eba", "u1ebb", "u1ebc",
     "u1ebd", "u1ebe", "u1ebf", "u1ec0", "u1ec1", "u1ec2", "u1ec3", "u1ec4",
     "u1ec5", "u1ec6", "u1ec7", "u1ec8", "u1ec9", "u1eca", "u1ecb", "u1ecc",
     "u1ecd", "u1ece", "u1ecf", "u1ed0", "u1ed1", "u1ed2", "u1ed3", "u1ed4",
     "u1ed5", "u1ed6", "u1ed7", "u1ed8", "u1ed9", "u1eda", "u1edb", "u1edc",
     "u1edd", "u1ede", "u1edf", "u1ee0", "u1ee1", "u1ee2", "u1ee3", "u1ee4",
     "u1ee5", "u1ee6", "u1ee7", "u1ee8", "u1ee9", "u1eea", "u1eeb", "u1eec",
     "u1eed", "u1eee", "u1eef", "u1ef0", "u1ef1", "u1ef2", "u1ef3", "u1ef4",
     "u1ef5", "u1ef6", "u1ef7", "u1ef8", "u1ef9", "u1efa", "u1efb", "u1efc",
     "u1efd", "u1efe", "u1eff", "u1f00", "u1f01", "u1f02", "u1f03", "u1f04",
     "u1f05", "u1f06", "u1f07", "u1f08", "u1f09", "u1f0a", "u1f0b", "u1f0c",
     "u1f0d", "u1f0e", "u1f0f", "u1f10", "u1f11", "u1f12", "u1f13", "u1f14",
     "u1f15", "u1f18", "u1f19", "u1f1a", "u1f1b", "u1f1c", "u1f1d", "u1f20",
     "u1f21", "u1f22", "u1f23", "u1f24", "u1f25", "u1f26", "u1f27", "u1f28",
     "u1f29", "u1f2a", "u1f2b", "u1f2c", "u1f2d", "u1f2e", "u1f2f", "u1f30",
     "u1f31", "u1f32", "u1f33", "u1f34", "u1f35", "u1f36", "u1f37", "u1f38",
     "u1f39", "u1f3a", "u1f3b", "u1f3c", "u1f3d", "u1f3e", "u1f3f", "u1f40",
     "u1f41", "u1f42", "u1f43", "u1f44", "u1f45", "u1f48", "u1f49", "u1f4a",
     "u1f4b", "u1f4c", "u1f4d", "u1f50", "u1f51", "u1f52", "u1f53", "u1f54",
     "u1f55", "u1f56", "u1f57", "u1f59", "u1f5b", "u1f5d", "u1f5f", "u1f60",
     "u1f61", "u1f62", "u1f63", "u1f64", "u1f65", "u1f66", "u1f67", "u1f68",
     "u1f69", "u1f6a", "u1f6b", "u1f6c", "u1f6d", "u1f6e", "u1f6f", "u1f70",
     "u1f71", "u1f72", "u1f73", "u1f74", "u1f75", "u1f76", "u1f77", "u1f78",
     "u1f79", "u1f7a", "u1f7b", "u1f7c", "u1f7d", "u1f80", "u1f81", "u1f82",
     "u1f83", "u1f84", "u1f85", "u1f86", "u1f87", "u1f88", "u1f89", "u1f8a",
     "u1f8b", "u1f8c", "u1f8d", "u1f8e", "u1f8f", "u1f90", "u1f91", "u1f92",
     "u1f93", "u1f94", "u1f95", "u1f96", "u1f97", "u1f98", "u1f99", "u1f9a",
     "u1f9b", "u1f9c", "u1f9d", "u1f9e", "u1f9f", "u1fa0", "u1fa1", "u1fa2",
     "u1fa3", "u1fa4", "u1fa5", "u1fa6", "u1fa7", "u1fa8", "u1fa9", "u1faa",
     "u1fab", "u1fac", "u1fad", "u1fae", "u1faf", "u1fb0", "u1fb1", "u1fb2",
     "u1fb3", "u1fb4", "u1fb6", "u1fb7", "u1fb8", "u1fb9", "u1fba", "u1fbb",
     "u1fbc", "u1fbe", "u1fc2", "u1fc3", "u1fc4", "u1fc6", "u1fc7", "u1fc8",
     "u1fc9", "u1fca", "u1fcb", "u1fcc", "u1fd0", "u1fd1", "u1fd2", "u1fd3",
     "u1fd6", "u1fd7", "u1fd8", "u1fd9", "u1fda", "u1fdb", "u1fe0", "u1fe1",
     "u1fe2", "u1fe3", "u1fe4", "u1fe5", "u1fe6", "u1fe7", "u1fe8", "u1fe9",
     "u1fea", "u1feb", "u1fec", "u1ff2", "u1ff3", "u1ff4", "u1ff6", "u1ff7",
     "u1ff8", "u1ff9", "u1ffa", "u1ffb", "u1ffc", "u2102", "u2107", "u210a",
     "u210b", "u210c", "u210d", "u210e", "u210f", "u2110", "u2111", "u2112",
     "u2113", "u2115", "u2119", "u211a", "u211b", "u211c", "u211d", "u2124",
     "u2126", "u2128", "u212a", "u212b", "u212c", "u212d", "u212f", "u2130",
     "u2131", "u2132", "u2133", "u2134", "u2139", "u213c", "u213d", "u213e",
     "u213f", "u2145", "u2146", "u2147", "u2148", "u2149", "u214e", "u2160",
     "u2161", "u2162", "u2163", "u2164", "u2165", "u2166", "u2167", "u2168",
     "u2169", "u216a", "u216b", "u216c", "u216d", "u216e", "u216f", "u2170",
     "u2171", "u2172", "u2173", "u2174", "u2175", "u2176", "u2177", "u2178",
     "u2179", "u217a", "u217b", "u217c", "u217d", "u217e", "u217f", "u2183",
     "u2184", "u24b6", "u24b7", "u24b8", "u24b9", "u24ba", "u24bb", "u24bc",
     "u24bd", "u24be", "u24bf", "u24c0", "u24c1", "u24c2", "u24c3", "u24c4",
     "u24c5", "u24c6", "u24c7", "u24c8", "u24c9", "u24ca", "u24cb", "u24cc",
     "u24cd", "u24ce", "u24cf", "u24d0", "u24d1", "u24d2", "u24d3", "u24d4",
     "u24d5", "u24d6", "u24d7", "u24d8", "u24d9", "u24da", "u24db", "u24dc",
     "u24dd", "u24de", "u24df", "u24e0", "u24e1", "u24e2", "u24e3", "u24e4",
     "u24e5", "u24e6", "u24e7", "u24e8", "u24e9", "u2c00", "u2c01", "u2c02",
     "u2c03", "u2c04", "u2c05", "u2c06", "u2c07", "u2c08", "u2c09", "u2c0a",
     "u2c0b", "u2c0c", "u2c0d", "u2c0e", "u2c0f", "u2c10", "u2c11", "u2c12",
     "u2c13", "u2c14", "u2c15", "u2c16", "u2c17", "u2c18", "u2c19", "u2c1a",
     "u2c1b", "u2c1c", "u2c1d", "u2c1e", "u2c1f", "u2c20", "u2c21", "u2c22",
     "u2c23", "u2c24", "u2c25", "u2c26", "u2c27", "u2c28", "u2c29", "u2c2a",
     "u2c2b", "u2c2c", "u2c2d", "u2c2e", "u2c2f", "u2c30", "u2c31", "u2c32",
     "u2c33", "u2c34", "u2c35", "u2c36", "u2c37", "u2c38", "u2c39", "u2c3a",
     "u2c3b", "u2c3c", "u2c3d", "u2c3e", "u2c3f", "u2c40", "u2c41", "u2c42",
     "u2c43", "u2c44", "u2c45", "u2c46", "u2c47", "u2c48", "u2c49", "u2c4a",
     "u2c4b", "u2c4c", "u2c4d", "u2c4e", "u2c4f", "u2c50", "u2c51", "u2c52",
     "u2c53", "u2c54", "u2c55", "u2c56", "u2c57", "u2c58", "u2c59", "u2c5a",
     "u2c5b", "u2c5c", "u2c5d", "u2c5e", "u2c5f", "u2c60", "u2c61", "u2c62",
     "u2c63", "u2c64", "u2c65", "u2c66", "u2c67", "u2c68", "u2c69", "u2c6a",
     "u2c6b", "u2c6c", "u2c6d", "u2c6e", "u2c6f", "u2c70", "u2c71", "u2c72",
     "u2c73", "u2c74", "u2c75", "u2c76", "u2c77", "u2c78", "u2c79", "u2c7a",
     "u2c7b", "u2c7e", "u2c7f", "u2c80", "u2c81", "u2c82", "u2c83", "u2c84",
     "u2c85", "u2c86", "u2c87", "u2c88", "u2c89", "u2c8a", "u2c8b", "u2c8c",
     "u2c8d", "u2c8e", "u2c8f", "u2c90", "u2c91", "u2c92", "u2c93", "u2c94",
     "u2c95", "u2c96", "u2c97", "u2c98", "u2c99", "u2c9a", "u2c9b", "u2c9c",
     "u2c9d", "u2c9e", "u2c9f", "u2ca0", "u2ca1", "u2ca2", "u2ca3", "u2ca4",
     "u2ca5", "u2ca6", "u2ca7", "u2ca8", "u2ca9", "u2caa", "u2cab", "u2cac",
     "u2cad", "u2cae", "u2caf", "u2cb0", "u2cb1", "u2cb2", "u2cb3", "u2cb4",
     "u2cb5", "u2cb6", "u2cb7", "u2cb8", "u2cb9", "u2cba", "u2cbb", "u2cbc",
     "u2cbd", "u2cbe", "u2cbf", "u2cc0", "u2cc1", "u2cc2", "u2cc3", "u2cc4",
     "u2cc5", "u2cc6", "u2cc7", "u2cc8", "u2cc9", "u2cca", "u2ccb", "u2ccc",
     "u2ccd", "u2cce", "u2ccf", "u2cd0", "u2cd1", "u2cd2", "u2cd3", "u2cd4",
     "u2cd5", "u2cd6", "u2cd7", "u2cd8", "u2cd9", "u2cda", "u2cdb", "u2cdc",
     "u2cdd", "u2cde", "u2cdf", "u2ce0", "u2ce1", "u2ce2", "u2ce3", "u2ce4",
     "u2ceb", "u2cec", "u2ced", "u2cee", "u2cf2", "u2cf3", "u2d00", "u2d01",
     "u2d02", "u2d03", "u2d04", "u2d05", "u2d06", "u2d07", "u2d08", "u2d09",
     "u2d0a", "u2d0b", "u2d0c", "u2d0d", "u2d0e", "u2d0f", "u2d10", "u2d11",
     "u2d12", "u2d13", "u2d14", "u2d15", "u2d16", "u2d17", "u2d18", "u2d19",
     "u2d1a", "u2d1b", "u2d1c", "u2d1d", "u2d1e", "u2d1f", "u2d20", "u2d21",
     "u2d22", "u2d23", "u2d24", "u2d25", "u2d27", "u2d2d", "ua640", "ua641",
     "ua642", "ua643", "ua644", "ua645", "ua646", "ua647", "ua648", "ua649",
     "ua64a", "ua64b", "ua64c", "ua64d", "ua64e", "ua64f", "ua650", "ua651",
     "ua652", "ua653", "ua654", "ua655", "ua656", "ua657", "ua658", "ua659",
     "ua65a", "ua65b", "ua65c", "ua65d", "ua65e", "ua65f", "ua660", "ua661",
     "ua662", "ua663", "ua664", "ua665", "ua666", "ua667", "ua668", "ua669",
     "ua66a", "ua66b", "ua66c", "ua66d", "ua680", "ua681", "ua682", "ua683",
     "ua684", "ua685", "ua686", "ua687", "ua688", "ua689", "ua68a", "ua68b",
     "ua68c", "ua68d", "ua68e", "ua68f", "ua690", "ua691", "ua692", "ua693",
     "ua694", "ua695", "ua696", "ua697", "ua698", "ua699", "ua69a", "ua69b",
     "ua722", "ua723", "ua724", "ua725", "ua726", "ua727", "ua728", "ua729",
     "ua72a", "ua72b", "ua72c", "ua72d", "ua72e", "ua72f", "ua730", "ua731",
     "ua732", "ua733", "ua734", "ua735", "ua736", "ua737", "ua738", "ua739",
     "ua73a", "ua73b", "ua73c", "ua73d", "ua73e", "ua73f", "ua740", "ua741",
     "ua742", "ua743", "ua744", "ua745", "ua746", "ua747", "ua748", "ua749",
     "ua74a", "ua74b", "ua74c", "ua74d", "ua74e", "ua74f", "ua750", "ua751",
     "ua752", "ua753", "ua754", "ua755", "ua756", "ua757", "ua758", "ua759",
     "ua75a", "ua75b", "ua75c", "ua75d", "ua75e", "ua75f", "ua760", "ua761",
     "ua762", "ua763", "ua764", "ua765", "ua766", "ua767", "ua768", "ua769",
     "ua76a", "ua76b", "ua76c", "ua76d", "ua76e", "ua76f", "ua771", "ua772",
     "ua773", "ua774", "ua775", "ua776", "ua777", "ua778", "ua779", "ua77a",
     "ua77b", "ua77c", "ua77d", "ua77e", "ua77f", "ua780", "ua781", "ua782",
     "ua783", "ua784", "ua785", "ua786", "ua787", "ua78b", "ua78c", "ua78d",
     "ua78e", "ua790", "ua791", "ua792", "ua793", "ua794", "ua795", "ua796",
     "ua797", "ua798", "ua799", "ua79a", "ua79b", "ua79c", "ua79d", "ua79e",
     "ua79f", "ua7a0", "ua7a1", "ua7a2", "ua7a3", "ua7a4", "ua7a5", "ua7a6",
     "ua7a7", "ua7a8", "ua7a9", "ua7aa", "ua7ab", "ua7ac", "ua7ad", "ua7ae",
     "ua7af", "ua7b0", "ua7b1", "ua7b2", "ua7b3", "ua7b4", "ua7b5", "ua7b6",
     "ua7b7", "ua7b8", "ua7b9", "ua7ba", "ua7bb", "ua7bc", "ua7bd", "ua7be",
     "ua7bf", "ua7c0", "ua7c1", "ua7c2", "ua7c3", "ua7c4", "ua7c5", "ua7c6",
     "ua7c7", "ua7c8", "ua7c9", "ua7ca", "ua7d0", "ua7d1", "ua7d3", "ua7d5",
     "ua7d6", "ua7d7", "ua7d8", "ua7d9", "ua7f5", "ua7f6", "ua7fa", "uab30",
     "uab31", "uab32", "uab33", "uab34", "uab35", "uab36", "uab37", "uab38",
     "uab39", "uab3a", "uab3b", "uab3c", "uab3d", "uab3e", "uab3f", "uab40",
     "uab41", "uab42", "uab43", "uab44", "uab45", "uab46", "uab47", "uab48",
     "uab49", "uab4a", "uab4b", "uab4c", "uab4d", "uab4e", "uab4f", "uab50",
     "uab51", "uab52", "uab53", "uab54", "uab55", "uab56", "uab57", "uab58",
     "uab59", "uab5a", "uab60", "uab61", "uab62", "uab63", "uab64", "uab65",
     "uab66", "uab67", "uab68", "uab70", "uab71", "uab72", "uab73", "uab74",
     "uab75", "uab76", "uab77", "uab78", "uab79", "uab7a", "uab7b", "uab7c",
     "uab7d", "uab7e", "uab7f", "uab80", "uab81", "uab82", "uab83", "uab84",
     "uab85", "uab86", "uab87", "uab88", "uab89", "uab8a", "uab8b", "uab8c",
     "uab8d", "uab8e", "uab8f", "uab90", "uab91", "uab92", "uab93", "uab94",
     "uab95", "uab96", "uab97", "uab98", "uab99", "uab9a", "uab9b", "uab9c",
     "uab9d", "uab9e", "uab9f", "uaba0", "uaba1", "uaba2", "uaba3", "uaba4",
     "uaba5", "uaba6", "uaba7", "uaba8", "uaba9", "uabaa", "uabab", "uabac",
     "uabad", "uabae", "uabaf", "uabb0", "uabb1", "uabb2", "uabb3", "uabb4",
     "uabb5", "uabb6", "uabb7", "uabb8", "uabb9", "uabba", "uabbb", "uabbc",
     "uabbd", "uabbe", "uabbf", "ufb00", "ufb01", "ufb02", "ufb03", "ufb04",
     "ufb05", "ufb06", "ufb13", "ufb14", "ufb15", "ufb16", "ufb17", "uff21",
     "uff22", "uff23", "uff24", "uff25", "uff26", "uff27", "uff28", "uff29",
     "uff2a", "uff2b", "uff2c", "uff2d", "uff2e", "uff2f", "uff30", "uff31",
     "uff32", "uff33", "uff34", "uff35", "uff36", "uff37", "uff38", "uff39",
     "uff3a", "uff41", "uff42", "uff43", "uff44", "uff45", "uff46", "uff47",
     "uff48", "uff49", "uff4a", "uff4b", "uff4c", "uff4d", "uff4e", "uff4f",
     "uff50", "uff51", "uff52", "uff53", "uff54", "uff55", "uff56", "uff57",
     "uff58", "uff59", "uff5a", "u10400", "u10401", "u10402", "u10403",
     "u10404", "u10405", "u10406", "u10407", "u10408", "u10409", "u1040a",
     "u1040b", "u1040c", "u1040d", "u1040e", "u1040f", "u10410", "u10411",
     "u10412", "u10413", "u10414", "u10415", "u10416", "u10417", "u10418",
     "u10419", "u1041a", "u1041b", "u1041c", "u1041d", "u1041e", "u1041f",
     "u10420", "u10421", "u10422", "u10423", "u10424", "u10425", "u10426",
     "u10427", "u10428", "u10429", "u1042a", "u1042b", "u1042c", "u1042d",
     "u1042e", "u1042f", "u10430", "u10431", "u10432", "u10433", "u10434",
     "u10435", "u10436", "u10437", "u10438", "u10439", "u1043a", "u1043b",
     "u1043c", "u1043d", "u1043e", "u1043f", "u10440", "u10441", "u10442",
     "u10443", "u10444", "u10445", "u10446", "u10447", "u10448", "u10449",
     "u1044a", "u1044b", "u1044c", "u1044d", "u1044e", "u1044f", "u104b0",
     "u104b1", "u104b2", "u104b3", "u104b4", "u104b5", "u104b6", "u104b7",
     "u104b8", "u104b9", "u104ba", "u104bb", "u104bc", "u104bd", "u104be",
     "u104bf", "u104c0", "u104c1", "u104c2", "u104c3", "u104c4", "u104c5",
     "u104c6", "u104c7", "u104c8", "u104c9", "u104ca", "u104cb", "u104cc",
     "u104cd", "u104ce", "u104cf", "u104d0", "u104d1", "u104d2", "u104d3",
     "u104d8", "u104d9", "u104da", "u104db", "u104dc", "u104dd", "u104de",
     "u104df", "u104e0", "u104e1", "u104e2", "u104e3", "u104e4", "u104e5",
     "u104e6", "u104e7", "u104e8", "u104e9", "u104ea", "u104eb", "u104ec",
     "u104ed", "u104ee", "u104ef", "u104f0", "u104f1", "u104f2", "u104f3",
     "u104f4", "u104f5", "u104f6", "u104f7", "u104f8", "u104f9", "u104fa",
     "u104fb", "u10570", "u10571", "u10572", "u10573", "u10574", "u10575",
     "u10576", "u10577", "u10578", "u10579", "u1057a", "u1057c", "u1057d",
     "u1057e", "u1057f", "u10580", "u10581", "u10582", "u10583", "u10584",
     "u10585", "u10586", "u10587", "u10588", "u10589", "u1058a", "u1058c",
     "u1058d", "u1058e", "u1058f", "u10590", "u10591", "u10592", "u10594",
     "u10595", "u10597", "u10598", "u10599", "u1059a", "u1059b", "u1059c",
     "u1059d", "u1059e", "u1059f", "u105a0", "u105a1", "u105a3", "u105a4",
     "u105a5", "u105a6", "u105a7", "u105a8", "u105a9", "u105aa", "u105ab",
     "u105ac", "u105ad", "u105ae", "u105af", "u105b0", "u105b1", "u105b3",
     "u105b4", "u105b5", "u105b6", "u105b7", "u105b8", "u105b9", "u105bb",
     "u105bc", "u10c80", "u10c81", "u10c82", "u10c83", "u10c84", "u10c85",
     "u10c86", "u10c87", "u10c88", "u10c89", "u10c8a", "u10c8b", "u10c8c",
     "u10c8d", "u10c8e", "u10c8f", "u10c90", "u10c91", "u10c92", "u10c93",
     "u10c94", "u10c95", "u10c96", "u10c97", "u10c98", "u10c99", "u10c9a",
     "u10c9b", "u10c9c", "u10c9d", "u10c9e", "u10c9f", "u10ca0", "u10ca1",
     "u10ca2", "u10ca3", "u10ca4", "u10ca5", "u10ca6", "u10ca7", "u10ca8",
     "u10ca9", "u10caa", "u10cab", "u10cac", "u10cad", "u10cae", "u10caf",
     "u10cb0", "u10cb1", "u10cb2", "u10cc0", "u10cc1", "u10cc2", "u10cc3",
     "u10cc4", "u10cc5", "u10cc6", "u10cc7", "u10cc8", "u10cc9", "u10cca",
     "u10ccb", "u10ccc", "u10ccd", "u10cce", "u10ccf", "u10cd0", "u10cd1",
     "u10cd2", "u10cd3", "u10cd4", "u10cd5", "u10cd6", "u10cd7", "u10cd8",
     "u10cd9", "u10cda", "u10cdb", "u10cdc", "u10cdd", "u10cde", "u10cdf",
     "u10ce0", "u10ce1", "u10ce2", "u10ce3", "u10ce4", "u10ce5", "u10ce6",
     "u10ce7", "u10ce8", "u10ce9", "u10cea", "u10ceb", "u10cec", "u10ced",
     "u10cee", "u10cef", "u10cf0", "u10cf1", "u10cf2", "u118a0", "u118a1",
     "u118a2", "u118a3", "u118a4", "u118a5", "u118a6", "u118a7", "u118a8",
     "u118a9", "u118aa", "u118ab", "u118ac", "u118ad", "u118ae", "u118af",
     "u118b0", "u118b1", "u118b2", "u118b3", "u118b4", "u118b5", "u118b6",
     "u118b7", "u118b8", "u118b9", "u118ba", "u118bb", "u118bc", "u118bd",
     "u118be", "u118bf", "u118c0", "u118c1", "u118c2", "u118c3", "u118c4",
     "u118c5", "u118c6", "u118c7", "u118c8", "u118c9", "u118ca", "u118cb",
     "u118cc", "u118cd", "u118ce", "u118cf", "u118d0", "u118d1", "u118d2",
     "u118d3", "u118d4", "u118d5", "u118d6", "u118d7", "u118d8", "u118d9",
     "u118da", "u118db", "u118dc", "u118dd", "u118de", "u118df", "u16e40",
     "u16e41", "u16e42", "u16e43", "u16e44", "u16e45", "u16e46", "u16e47",
     "u16e48", "u16e49", "u16e4a", "u16e4b", "u16e4c", "u16e4d", "u16e4e",
     "u16e4f", "u16e50", "u16e51", "u16e52", "u16e53", "u16e54", "u16e55",
     "u16e56", "u16e57", "u16e58", "u16e59", "u16e5a", "u16e5b", "u16e5c",
     "u16e5d", "u16e5e", "u16e5f", "u16e60", "u16e61", "u16e62", "u16e63",
     "u16e64", "u16e65", "u16e66", "u16e67", "u16e68", "u16e69", "u16e6a",
     "u16e6b", "u16e6c", "u16e6d", "u16e6e", "u16e6f", "u16e70", "u16e71",
     "u16e72", "u16e73", "u16e74", "u16e75", "u16e76", "u16e77", "u16e78",
     "u16e79", "u16e7a", "u16e7b", "u16e7c", "u16e7d", "u16e7e", "u16e7f",
     "u1d400", "u1d401", "u1d402", "u1d403", "u1d404", "u1d405", "u1d406",
     "u1d407", "u1d408", "u1d409", "u1d40a", "u1d40b", "u1d40c", "u1d40d",
     "u1d40e", "u1d40f", "u1d410", "u1d411", "u1d412", "u1d413", "u1d414",
     "u1d415", "u1d416", "u1d417", "u1d418", "u1d419", "u1d41a", "u1d41b",
     "u1d41c", "u1d41d", "u1d41e", "u1d41f", "u1d420", "u1d421", "u1d422",
     "u1d423", "u1d424", "u1d425", "u1d426", "u1d427", "u1d428", "u1d429",
     "u1d42a", "u1d42b", "u1d42c", "u1d42d", "u1d42e", "u1d42f", "u1d430",
     "u1d431", "u1d432", "u1d433", "u1d434", "u1d435", "u1d436", "u1d437",
     "u1d438", "u1d439", "u1d43a", "u1d43b", "u1d43c", "u1d43d", "u1d43e",
     "u1d43f", "u1d440", "u1d441", "u1d442", "u1d443", "u1d444", "u1d445",
     "u1d446", "u1d447", "u1d448", "u1d449", "u1d44a", "u1d44b", "u1d44c",
     "u1d44d", "u1d44e", "u1d44f", "u1d450", "u1d451", "u1d452", "u1d453",
     "u1d454", "u1d456", "u1d457", "u1d458", "u1d459", "u1d45a", "u1d45b",
     "u1d45c", "u1d45d", "u1d45e", "u1d45f", "u1d460", "u1d461", "u1d462",
     "u1d463", "u1d464", "u1d465", "u1d466", "u1d467", "u1d468", "u1d469",
     "u1d46a", "u1d46b", "u1d46c", "u1d46d", "u1d46e", "u1d46f", "u1d470",
     "u1d471", "u1d472", "u1d473", "u1d474", "u1d475", "u1d476", "u1d477",
     "u1d478", "u1d479", "u1d47a", "u1d47b", "u1d47c", "u1d47d", "u1d47e",
     "u1d47f", "u1d480", "u1d481", "u1d482", "u1d483", "u1d484", "u1d485",
     "u1d486", "u1d487", "u1d488", "u1d489", "u1d48a", "u1d48b", "u1d48c",
     "u1d48d", "u1d48e", "u1d48f", "u1d490", "u1d491", "u1d492", "u1d493",
     "u1d494", "u1d495", "u1d496", "u1d497", "u1d498", "u1d499", "u1d49a",
     "u1d49b", "u1d49c", "u1d49e", "u1d49f", "u1d4a2", "u1d4a5", "u1d4a6",
     "u1d4a9", "u1d4aa", "u1d4ab", "u1d4ac", "u1d4ae", "u1d4af", "u1d4b0",
     "u1d4b1", "u1d4b2", "u1d4b3", "u1d4b4", "u1d4b5", "u1d4b6", "u1d4b7",
     "u1d4b8", "u1d4b9", "u1d4bb", "u1d4bd", "u1d4be", "u1d4bf", "u1d4c0",
     "u1d4c1", "u1d4c2", "u1d4c3", "u1d4c5", "u1d4c6", "u1d4c7", "u1d4c8",
     "u1d4c9", "u1d4ca", "u1d4cb", "u1d4cc", "u1d4cd", "u1d4ce", "u1d4cf",
     "u1d4d0", "u1d4d1", "u1d4d2", "u1d4d3", "u1d4d4", "u1d4d5", "u1d4d6",
     "u1d4d7", "u1d4d8", "u1d4d9", "u1d4da", "u1d4db", "u1d4dc", "u1d4dd",
     "u1d4de", "u1d4df", "u1d4e0", "u1d4e1", "u1d4e2", "u1d4e3", "u1d4e4",
     "u1d4e5", "u1d4e6", "u1d4e7", "u1d4e8", "u1d4e9", "u1d4ea", "u1d4eb",
     "u1d4ec", "u1d4ed", "u1d4ee", "u1d4ef", "u1d4f0", "u1d4f1", "u1d4f2",
     "u1d4f3", "u1d4f4", "u1d4f5", "u1d4f6", "u1d4f7", "u1d4f8", "u1d4f9",
     "u1d4fa", "u1d4fb", "u1d4fc", "u1d4fd", "u1d4fe", "u1d4ff", "u1d500",
     "u1d501", "u1d502", "u1d503", "u1d504", "u1d505", "u1d507", "u1d508",
     "u1d509", "u1d50a", "u1d50d", "u1d50e", "u1d50f", "u1d510", "u1d511",
     "u1d512", "u1d513", "u1d514", "u1d516", "u1d517", "u1d518", "u1d519",
     "u1d51a", "u1d51b", "u1d51c", "u1d51e", "u1d51f", "u1d520", "u1d521",
     "u1d522", "u1d523", "u1d524", "u1d525", "u1d526", "u1d527", "u1d528",
     "u1d529", "u1d52a", "u1d52b", "u1d52c", "u1d52d", "u1d52e", "u1d52f",
     "u1d530", "u1d531", "u1d532", "u1d533", "u1d534", "u1d535", "u1d536",
     "u1d537", "u1d538", "u1d539", "u1d53b", "u1d53c", "u1d53d", "u1d53e",
     "u1d540", "u1d541", "u1d542", "u1d543", "u1d544", "u1d546", "u1d54a",
     "u1d54b", "u1d54c", "u1d54d", "u1d54e", "u1d54f", "u1d550", "u1d552",
     "u1d553", "u1d554", "u1d555", "u1d556", "u1d557", "u1d558", "u1d559",
     "u1d55a", "u1d55b", "u1d55c", "u1d55d", "u1d55e", "u1d55f", "u1d560",
     "u1d561", "u1d562", "u1d563", "u1d564", "u1d565", "u1d566", "u1d567",
     "u1d568", "u1d569", "u1d56a", "u1d56b", "u1d56c", "u1d56d", "u1d56e",
     "u1d56f", "u1d570", "u1d571", "u1d572", "u1d573", "u1d574", "u1d575",
     "u1d576", "u1d577", "u1d578", "u1d579", "u1d57a", "u1d57b", "u1d57c",
     "u1d57d", "u1d57e", "u1d57f", "u1d580", "u1d581", "u1d582", "u1d583",
     "u1d584", "u1d585", "u1d586", "u1d587", "u1d588", "u1d589", "u1d58a",
     "u1d58b", "u1d58c", "u1d58d", "u1d58e", "u1d58f", "u1d590", "u1d591",
     "u1d592", "u1d593", "u1d594", "u1d595", "u1d596", "u1d597", "u1d598",
     "u1d599", "u1d59a", "u1d59b", "u1d59c", "u1d59d", "u1d59e", "u1d59f",
     "u1d5a0", "u1d5a1", "u1d5a2", "u1d5a3", "u1d5a4", "u1d5a5", "u1d5a6",
     "u1d5a7", "u1d5a8", "u1d5a9", "u1d5aa", "u1d5ab", "u1d5ac", "u1d5ad",
     "u1d5ae", "u1d5af", "u1d5b0", "u1d5b1", "u1d5b2", "u1d5b3", "u1d5b4",
     "u1d5b5", "u1d5b6", "u1d5b7", "u1d5b8", "u1d5b9", "u1d5ba", "u1d5bb",
     "u1d5bc", "u1d5bd", "u1d5be", "u1d5bf", "u1d5c0", "u1d5c1", "u1d5c2",
     "u1d5c3", "u1d5c4", "u1d5c5", "u1d5c6", "u1d5c7", "u1d5c8", "u1d5c9",
     "u1d5ca", "u1d5cb", "u1d5cc", "u1d5cd", "u1d5ce", "u1d5cf", "u1d5d0",
     "u1d5d1", "u1d5d2", "u1d5d3", "u1d5d4", "u1d5d5", "u1d5d6", "u1d5d7",
     "u1d5d8", "u1d5d9", "u1d5da", "u1d5db", "u1d5dc", "u1d5dd", "u1d5de",
     "u1d5df", "u1d5e0", "u1d5e1", "u1d5e2", "u1d5e3", "u1d5e4", "u1d5e5",
     "u1d5e6", "u1d5e7", "u1d5e8", "u1d5e9", "u1d5ea", "u1d5eb", "u1d5ec",
     "u1d5ed", "u1d5ee", "u1d5ef", "u1d5f0", "u1d5f1", "u1d5f2", "u1d5f3",
     "u1d5f4", "u1d5f5", "u1d5f6", "u1d5f7", "u1d5f8", "u1d5f9", "u1d5fa",
     "u1d5fb", "u1d5fc", "u1d5fd", "u1d5fe", "u1d5ff", "u1d600", "u1d601",
     "u1d602", "u1d603", "u1d604", "u1d605", "u1d606", "u1d607", "u1d608",
     "u1d609", "u1d60a", "u1d60b", "u1d60c", "u1d60d", "u1d60e", "u1d60f",
     "u1d610", "u1d611", "u1d612", "u1d613", "u1d614", "u1d615", "u1d616",
     "u1d617", "u1d618", "u1d619", "u1d61a", "u1d61b", "u1d61c", "u1d61d",
     "u1d61e", "u1d61f", "u1d620", "u1d621", "u1d622", "u1d623", "u1d624",
     "u1d625", "u1d626", "u1d627", "u1d628", "u1d629", "u1d62a", "u1d62b",
     "u1d62c", "u1d62d", "u1d62e", "u1d62f", "u1d630", "u1d631", "u1d632",
     "u1d633", "u1d634", "u1d635", "u1d636", "u1d637", "u1d638", "u1d639",
     "u1d63a", "u1d63b", "u1d63c", "u1d63d", "u1d63e", "u1d63f", "u1d640",
     "u1d641", "u1d642", "u1d643", "u1d644", "u1d645", "u1d646", "u1d647",
     "u1d648", "u1d649", "u1d64a", "u1d64b", "u1d64c", "u1d64d", "u1d64e",
     "u1d64f", "u1d650", "u1d651", "u1d652", "u1d653", "u1d654", "u1d655",
     "u1d656", "u1d657", "u1d658", "u1d659", "u1d65a", "u1d65b", "u1d65c",
     "u1d65d", "u1d65e", "u1d65f", "u1d660", "u1d661", "u1d662", "u1d663",
     "u1d664", "u1d665", "u1d666", "u1d667", "u1d668", "u1d669", "u1d66a",
     "u1d66b", "u1d66c", "u1d66d", "u1d66e", "u1d66f", "u1d670", "u1d671",
     "u1d672", "u1d673", "u1d674", "u1d675", "u1d676", "u1d677", "u1d678",
     "u1d679", "u1d67a", "u1d67b", "u1d67c", "u1d67d", "u1d67e", "u1d67f",
     "u1d680", "u1d681", "u1d682", "u1d683", "u1d684", "u1d685", "u1d686",
     "u1d687", "u1d688", "u1d689", "u1d68a", "u1d68b", "u1d68c", "u1d68d",
     "u1d68e", "u1d68f", "u1d690", "u1d691", "u1d692", "u1d693", "u1d694",
     "u1d695", "u1d696", "u1d697", "u1d698", "u1d699", "u1d69a", "u1d69b",
     "u1d69c", "u1d69d", "u1d69e", "u1d69f", "u1d6a0", "u1d6a1", "u1d6a2",
     "u1d6a3", "u1d6a4", "u1d6a5", "u1d6a8", "u1d6a9", "u1d6aa", "u1d6ab",
     "u1d6ac", "u1d6ad", "u1d6ae", "u1d6af", "u1d6b0", "u1d6b1", "u1d6b2",
     "u1d6b3", "u1d6b4", "u1d6b5", "u1d6b6", "u1d6b7", "u1d6b8", "u1d6b9",
     "u1d6ba", "u1d6bb", "u1d6bc", "u1d6bd", "u1d6be", "u1d6bf", "u1d6c0",
     "u1d6c2", "u1d6c3", "u1d6c4", "u1d6c5", "u1d6c6", "u1d6c7", "u1d6c8",
     "u1d6c9", "u1d6ca", "u1d6cb", "u1d6cc", "u1d6cd", "u1d6ce", "u1d6cf",
     "u1d6d0", "u1d6d1", "u1d6d2", "u1d6d3", "u1d6d4", "u1d6d5", "u1d6d6",
     "u1d6d7", "u1d6d8", "u1d6d9", "u1d6da", "u1d6dc", "u1d6dd", "u1d6de",
     "u1d6df", "u1d6e0", "u1d6e1", "u1d6e2", "u1d6e3", "u1d6e4", "u1d6e5",
     "u1d6e6", "u1d6e7", "u1d6e8", "u1d6e9", "u1d6ea", "u1d6eb", "u1d6ec",
     "u1d6ed", "u1d6ee", "u1d6ef", "u1d6f0", "u1d6f1", "u1d6f2", "u1d6f3",
     "u1d6f4", "u1d6f5", "u1d6f6", "u1d6f7", "u1d6f8", "u1d6f9", "u1d6fa",
     "u1d6fc", "u1d6fd", "u1d6fe", "u1d6ff", "u1d700", "u1d701", "u1d702",
     "u1d703", "u1d704", "u1d705", "u1d706", "u1d707", "u1d708", "u1d709",
     "u1d70a", "u1d70b", "u1d70c", "u1d70d", "u1d70e", "u1d70f", "u1d710",
     "u1d711", "u1d712", "u1d713", "u1d714", "u1d716", "u1d717", "u1d718",
     "u1d719", "u1d71a", "u1d71b", "u1d71c", "u1d71d", "u1d71e", "u1d71f",
     "u1d720", "u1d721", "u1d722", "u1d723", "u1d724", "u1d725", "u1d726",
     "u1d727", "u1d728", "u1d729", "u1d72a", "u1d72b", "u1d72c", "u1d72d",
     "u1d72e", "u1d72f", "u1d730", "u1d731", "u1d732", "u1d733", "u1d734",
     "u1d736", "u1d737", "u1d738", "u1d739", "u1d73a", "u1d73b", "u1d73c",
     "u1d73d", "u1d73e", "u1d73f", "u1d740", "u1d741", "u1d742", "u1d743",
     "u1d744", "u1d745", "u1d746", "u1d747", "u1d748", "u1d749", "u1d74a",
     "u1d74b", "u1d74c", "u1d74d", "u1d74e", "u1d750", "u1d751", "u1d752",
     "u1d753", "u1d754", "u1d755", "u1d756", "u1d757", "u1d758", "u1d759",
     "u1d75a", "u1d75b", "u1d75c", "u1d75d", "u1d75e", "u1d75f", "u1d760",
     "u1d761", "u1d762", "u1d763", "u1d764", "u1d765", "u1d766", "u1d767",
     "u1d768", "u1d769", "u1d76a", "u1d76b", "u1d76c", "u1d76d", "u1d76e",
     "u1d770", "u1d771", "u1d772", "u1d773", "u1d774", "u1d775", "u1d776",
     "u1d777", "u1d778", "u1d779", "u1d77a", "u1d77b", "u1d77c", "u1d77d",
     "u1d77e", "u1d77f", "u1d780", "u1d781", "u1d782", "u1d783", "u1d784",
     "u1d785", "u1d786", "u1d787", "u1d788", "u1d78a", "u1d78b", "u1d78c",
     "u1d78d", "u1d78e", "u1d78f", "u1d790", "u1d791", "u1d792", "u1d793",
     "u1d794", "u1d795", "u1d796", "u1d797", "u1d798", "u1d799", "u1d79a",
     "u1d79b", "u1d79c", "u1d79d", "u1d79e", "u1d79f", "u1d7a0", "u1d7a1",
     "u1d7a2", "u1d7a3", "u1d7a4", "u1d7a5", "u1d7a6", "u1d7a7", "u1d7a8",
     "u1d7aa", "u1d7ab", "u1d7ac", "u1d7ad", "u1d7ae", "u1d7af", "u1d7b0",
     "u1d7b1", "u1d7b2", "u1d7b3", "u1d7b4", "u1d7b5", "u1d7b6", "u1d7b7",
     "u1d7b8", "u1d7b9", "u1d7ba", "u1d7bb", "u1d7bc", "u1d7bd", "u1d7be",
     "u1d7bf", "u1d7c0", "u1d7c1", "u1d7c2", "u1d7c4", "u1d7c5", "u1d7c6",
     "u1d7c7", "u1d7c8", "u1d7c9", "u1d7ca", "u1d7cb", "u1df00", "u1df01",
     "u1df02", "u1df03", "u1df04", "u1df05", "u1df06", "u1df07", "u1df08",
     "u1df09", "u1df0b", "u1df0c", "u1df0d", "u1df0e", "u1df0f", "u1df10",
     "u1df11", "u1df12", "u1df13", "u1df14", "u1df15", "u1df16", "u1df17",
     "u1df18", "u1df19", "u1df1a", "u1df1b", "u1df1c", "u1df1d", "u1df1e",
     "u1e900", "u1e901", "u1e902", "u1e903", "u1e904", "u1e905", "u1e906",
     "u1e907", "u1e908", "u1e909", "u1e90a", "u1e90b", "u1e90c", "u1e90d",
     "u1e90e", "u1e90f", "u1e910", "u1e911", "u1e912", "u1e913", "u1e914",
     "u1e915", "u1e916", "u1e917", "u1e918", "u1e919", "u1e91a", "u1e91b",
     "u1e91c", "u1e91d", "u1e91e", "u1e91f", "u1e920", "u1e921", "u1e922",
     "u1e923", "u1e924", "u1e925", "u1e926", "u1e927", "u1e928", "u1e929",
     "u1e92a", "u1e92b", "u1e92c", "u1e92d", "u1e92e", "u1e92f", "u1e930",
     "u1e931", "u1e932", "u1e933", "u1e934", "u1e935", "u1e936", "u1e937",
     "u1e938", "u1e939", "u1e93a", "u1e93b", "u1e93c", "u1e93d", "u1e93e",
     "u1e93f", "u1e940", "u1e941", "u1e942", "u1e943", "u1f130", "u1f131",
     "u1f132", "u1f133", "u1f134", "u1f135", "u1f136", "u1f137", "u1f138",
     "u1f139", "u1f13a", "u1f13b", "u1f13c", "u1f13d", "u1f13e", "u1f13f",
     "u1f140", "u1f141", "u1f142", "u1f143", "u1f144", "u1f145", "u1f146",
     "u1f147", "u1f148", "u1f149", "u1f150", "u1f151", "u1f152", "u1f153",
     "u1f154", "u1f155", "u1f156", "u1f157", "u1f158", "u1f159", "u1f15a",
     "u1f15b", "u1f15c", "u1f15d", "u1f15e", "u1f15f", "u1f160", "u1f161",
     "u1f162", "u1f163", "u1f164", "u1f165", "u1f166", "u1f167", "u1f168",
     "u1f169", "u1f170", "u1f171", "u1f172", "u1f173", "u1f174", "u1f175",
     "u1f176", "u1f177", "u1f178", "u1f179", "u1f17a", "u1f17b", "u1f17c",
     "u1f17d", "u1f17e", "u1f17f", "u1f180", "u1f181", "u1f182", "u1f183",
     "u1f184", "u1f185", "u1f186", "u1f187", "u1f188", "u1f189"}

\* str.upper(), one character: the image is a string of one or more characters
UpperChar(c) == IF c \in DOMAIN UpperMap THEN UpperMap[c] ELSE <<c>>

\* str.upper()
RECURSIVE upper(_)
upper(s) == IF s = <<>> THEN <<>> ELSE UpperChar(Head(s)) \o upper(Tail(s))

RECURSIVE lstrip(_)
lstrip(s) ==
    IF s = <<>> THEN s
    ELSE IF Head(s) \in Whitespace THEN lstrip(Tail(s)) ELSE s

RECURSIVE rstrip(_)
rstrip(s) ==
    IF s = <<>> THEN s
    ELSE IF s[Len(s)] \in Whitespace THEN rstrip(SubSeq(s, 1, Len(s) - 1)) ELSE s

\* str.strip()
strip(s) == rstrip(lstrip(s))

\* utils.sanitize_string of a str with max_length = None
sanitize_string(value) == strip(value)

\* Python truthiness of a str argument: "not s" is true of the empty string
Falsy(s) == s = <<>>

\* Python truthiness of a dict-or-None value: None and {} are false
Truthy(d) == d # None /\ DOMAIN d # {}

\* dict.get(k) with the default None
DictGet(d, k) == IF k \in DOMAIN d THEN d[k] ELSE None

\* "not v or not str(v).strip()" of the validators
Blank(v) == Falsy(v) \/ strip(v) = <<>>

\* ------------------------------------------------------ program constants
TASK_STATUS_CREATED == <<"C","R","E","A","T","E","D">>
TASK_STATUS_IN_PROGRESS == <<"I","N","_","P","R","O","G","R","E","S","S">>
TASK_STATUS_COMPLETED == <<"C","O","M","P","L","E","T","E","D">>
TASK_STATUS_CANCELLED == <<"C","A","N","C","E","L","L","E","D">>

VALID_TASK_STATUSES ==
    { TASK_STATUS_CREATED, TASK_STATUS_IN_PROGRESS,
      TASK_STATUS_COMPLETED, TASK_STATUS_CANCELLED }

KEY_PREFIX_TASK == <<"T","A","S","K">>
KEY_PREFIX_DOCUMENT == <<"D","O","C">>

\* validate_status that accepts every value
validate_status_any(status) == TRUE

\* utils.validate_status
validate_status(status) == status \in VALID_TASK_STATUSES

\* utils.create_task_key: f"{KEY_PREFIX_TASK}_{task_id}"
create_task_key(task_id) == KEY_PREFIX_TASK \o <<"_">> \o task_id

\* utils.create_document_key: f"{KEY_PREFIX_DOCUMENT}_{task_id}_{document_id}"
create_document_key(task_id, document_id) ==
    KEY_PREFIX_DOCUMENT \o <<"_">> \o task_id \o <<"_">> \o document_id

\* format_response that gives a failure a data field as well
format_response_data(success, data, error, ts) ==
    IF success
    THEN IF data # None
         THEN [success |-> TRUE, timestamp |-> ts, data |-> data]
         ELSE [success |-> TRUE, timestamp |-> ts]
    ELSE [success |-> FALSE, timestamp |-> ts, data |-> data,
          error |-> IF error = "" THEN "unknown_error" ELSE error]

\* utils.format_response; ts is the clock reading of datetime.utcnow()
format_response(success, data, error, ts) ==
    IF success
    THEN IF data # None
         THEN [success |-> TRUE, timestamp |-> ts, data |-> data]
         ELSE [success |-> TRUE, timestamp |-> ts]
    ELSE [success |-> FALSE, timestamp |-> ts,
          error |-> IF error = "" THEN "unknown_error" ELSE error]

\* dict item assignment d[k] = v
DictSet(d, k, v) == [x \in (DOMAIN d) \cup {k} |-> IF x = k THEN v ELSE d[x]]

\* validate_task_data that accepts every record
validate_task_data_lax(task_data) == "ok"

\* utils.validate_task_data: name of the failure message, None when valid
validate_task_data(task_data) ==
    IF Blank(task_data.task_id) THEN "field_empty:task_id"
    ELSE IF Blank(task_data.title) THEN "field_empty:title"
    ELSE IF Blank(task_data.description) THEN "field_empty:description"
    ELSE IF Blank(task_data.assignee) THEN "field_empty:assignee"
    ELSE IF Blank(task_data.creator) THEN "field_empty:creator"
    ELSE "ok"

\* utils.validate_document_version_data
validate_document_version_data(version_data) ==
    IF Blank(version_data.version) THEN "field_empty:version"
    ELSE IF Blank(version_data.content_hash) THEN "field_empty:content_hash"
    ELSE IF Blank(version_data.uploaded_by) THEN "field_empty:uploaded_by"
    ELSE "ok"

\* ------------------------------------------------------- metadata values
\* A JSON value is None (null), [type |-> "bool", val |-> b],
\* [type |-> "int", text |-> the decimal numeral], [type |-> "float",
\* text |-> the repr], [type |-> "str", text |-> characters],
\* [type |-> "list", items |-> sequence of values] or [type |-> "dict",
\* items |-> sequence of <<key, value>> in insertion order]
MetaBool(b) == [type |-> "bool", val |-> b]
MetaInt(text) == [type |-> "int", text |-> text]
MetaFloat(text) == [type |-> "float", text |-> text]
MetaList(items) == [type |-> "list", items |-> items]

\* a metadata argument given as JSON text, as a dict
MetaText(text) == [type |-> "str", text |-> text]
MetaDict(items) == [type |-> "dict", items |-> items]

EmptyDict == MetaDict(<<>>)

\* the exceptions json.loads raises
JSONDecodeError == [type |-> "JSONDecodeError"]
ValueError == [type |-> "ValueError"]
RecursionError == [type |-> "RecursionError"]

\* sys.int_max_str_digits
MaxStrDigits == 4300

\* Under the interpreter's default recursion limit, with invoke_chaincode
\* called from the top frame: the deepest nesting of lists and dicts that
\* json.loads decodes where invoke_chaincode itself calls parse_metadata
\* (every frame between the two takes one level away), and the deepest
\* nesting of a metadata value that json.dumps encodes inside a task record
\* where a handler calls put_state
NestingLimit == 993
StorableNesting == 987

\* the exponent magnitude float() takes for an exponent of more than nine
\* digits (MAX_ABS_EXP of the interpreter's string-to-double conversion)
MaxAbsExp == 1100000000

\* the most digits float() takes, leading zeros apart, and the most digits
\* after the point (MAX_DIGITS of the interpreter's string-to-double
\* conversion); a numeral with more is not converted
MaxDigits == 1000000000

JsonWhitespace == {" ", "\t", "\n", "u000d"}
JsonDigits == {"0","1","2","3","4","5","6","7","8","9"}
HexDigits == <<"0","1","2","3","4","5","6","7","8","9","a","b","c","d","e","f">>
UpperHexDigits == <<"0","1","2","3","4","5","6","7","8","9","A","B","C","D","E","F">>

IsHex(c) == \E v \in 1..16 : HexDigits[v] = c \/ UpperHexDigits[v] = c
HexValue(c) == (CHOOSE v \in 1..16 : HexDigits[v] = c \/ UpperHexDigits[v] = c) - 1
DigitValue(c) == HexValue(c)

\* the characters U+0020..U+007E in code order
Printable ==
 <<
    " ","!","\"","#","$","%","&","'","(",")","*","+",",","-",".","/","0",
    "1","2","3","4","5","6","7","8","9",":",";","<","=",">","?","@","A","B",
    "C","D","E","F","G","H","I","J","K","L","M","N","O","P","Q","R","S","T",
    "U","V","W","X","Y","Z","[","\\","]","^","_","u0060","a","b","c","d",
    "e","f","g","h","i","j","k","l","m","n","o","p","q","r","s","t","u","v",
    "w","x","y","z","{","|","}","~"
 >>

\* the name of the character with the given code point
HexName(code) ==
    LET h(k) == HexDigits[((code \div (16 ^ k)) % 16) + 1]
    IN  IF code < 65536 THEN "u" \o h(3) \o h(2) \o h(1) \o h(0)
        ELSE IF code < 1048576 THEN "u" \o h(4) \o h(3) \o h(2) \o h(1) \o h(0)
        ELSE "u" \o h(5) \o h(4) \o h(3) \o h(2) \o h(1) \o h(0)

\* chr
CharOf(code) ==
    IF code = 9 THEN "\t"
    ELSE IF code = 10 THEN "\n"
    ELSE IF code >= 32 /\ code <= 126 THEN Printable[code - 31]
    ELSE HexName(code)

\* ord
CodeOf(c) ==
    IF c = "\t" THEN 9
    ELSE IF c = "\n" THEN 10
    ELSE IF \E i \in 1..95 : Printable[i] = c
         THEN 31 + CHOOSE i \in 1..95 : Printable[i] = c
    ELSE IF Len(c) = 5 THEN CHOOSE code \in 0..65535 : HexName(code) = c
    ELSE IF Len(c) = 6 THEN CHOOSE code \in 65536..1048575 : HexName(code) = c
    ELSE CHOOSE code \in 1048576..1114111 : HexName(code) = c

\* the characters below U+0020, which a JSON string may not hold
ControlChars == {"\t", "\n"} \cup { HexName(code) : code \in 0..31 }

\* the code points U+D800..U+DFFF, which UTF-8 does not encode
Surrogates == { HexName(code) : code \in 55296..57343 }

\* the first index from i on whose character is outside chars, Len(s) + 1
\* when there is none
RunEnd(s, i, chars) ==
    LET stops == { j \in i..Len(s) : s[j] \notin chars }
    IN  IF stops = {} THEN Len(s) + 1
        ELSE CHOOSE j \in stops : \A k \in stops : j <= k

SkipWhitespace(s, i) == RunEnd(s, i, JsonWhitespace)

HasAt(s, i, word) ==
    i + Len(word) - 1 <= Len(s) /\ SubSeq(s, i, i + Len(word) - 1) = word

Reverse(s) == [i \in 1..Len(s) |-> s[Len(s) + 1 - i]] \o <<>>
StripZerosLeft(d) == SubSeq(d, RunEnd(d, 1, {"0"}), Len(d))
StripZerosRight(d) == Reverse(StripZerosLeft(Reverse(d)))
Zeros(n) == [i \in 1..n |-> "0"]

RECURSIVE NatOf(_)
NatOf(d) ==
    IF d = <<>> THEN 0
    ELSE NatOf(SubSeq(d, 1, Len(d) - 1)) * 10 + DigitValue(d[Len(d)])

RECURSIVE DigitsOf(_)
DigitsOf(n) ==
    IF n < 10 THEN <<HexDigits[n + 1]>>
    ELSE DigitsOf(n \div 10) \o <<HexDigits[(n % 10) + 1]>>

\* float.__repr__ of the float 0.digits * 10^decpt
FloatFormat(digits, decpt) ==
    IF decpt > -4 /\ decpt <= 16
    THEN IF decpt <= 0 THEN <<"0", ".">> \o Zeros(-decpt) \o digits
         ELSE IF decpt >= Len(digits)
              THEN digits \o Zeros(decpt - Len(digits)) \o <<".", "0">>
              ELSE SubSeq(digits, 1, decpt) \o <<".">>
                   \o SubSeq(digits, decpt + 1, Len(digits))
    ELSE LET e == IF decpt - 1 < 0 THEN 1 - decpt ELSE decpt - 1
         IN  <<digits[1]>>
             \o (IF Len(digits) > 1 THEN <<".">> \o Tail(digits) ELSE <<>>)
             \o <<"e", IF decpt - 1 < 0 THEN "-" ELSE "+">>
             \o (IF e < 10 THEN <<"0">> ELSE <<>>) \o DigitsOf(e)

\* Decimal arithmetic of float(): a number is [d |-> its digits as numbers,
\* most significant first, p |-> how many of them are fractional]
DigitNat == [c \in JsonDigits |-> HexValue(c)]
Dec(d, p) == [d |-> d \o <<>>, p |-> p]

\* twice the number (the carry out of a digit is 1 exactly when it is >= 5)
Double(x) ==
    LET n == Len(x.d)
        get(j) == IF j >= 1 /\ j <= n THEN x.d[j] ELSE 0
        grow == IF n > 0 /\ x.d[1] >= 5 THEN 1 ELSE 0
    IN  Dec([i \in 1..(n + grow) |->
                (2 * get(i - grow) + (IF get(i - grow + 1) >= 5 THEN 1 ELSE 0)) % 10],
            x.p)

\* half the number: five times it, one more digit fractional
Halve(x) ==
    LET n == Len(x.d)
        get(j) == IF j >= 1 /\ j <= n THEN x.d[j] ELSE 0
    IN  Dec([i \in 1..(n + 1) |-> (5 * get(i - 1) + (get(i) \div 2)) % 10], x.p + 1)

\* the number doubled, halved k times (half of the steps, then the rest)
RECURSIVE Doubled(_, _)
Doubled(x, k) ==
    IF k = 0 THEN x
    ELSE IF k = 1 THEN Double(x)
    ELSE CHOOSE r \in { Doubled(y, k - (k \div 2)) : y \in { Doubled(x, k \div 2) } } : TRUE

RECURSIVE Halved(_, _)
Halved(x, k) ==
    IF k = 0 THEN x
    ELSE IF k = 1 THEN Halve(x)
    ELSE CHOOSE r \in { Halved(y, k - (k \div 2)) : y \in { Halved(x, k \div 2) } } : TRUE

\* the number times 2^k
Scaled(x, k) == IF k >= 0 THEN Doubled(x, k) ELSE Halved(x, -k)

\* -1, 0 or 1 as the natural number with digits a is below, equal to or
\* above the one with digits b
CompareNat(a, b) ==
    LET n == IF Len(a) > Len(b) THEN Len(a) ELSE Len(b)
        at(x, i) == IF i > n - Len(x) THEN x[i - (n - Len(x))] ELSE 0
        diff == { i \in 1..n : at(a, i) # at(b, i) }
        first == CHOOSE i \in diff : \A k \in diff : i <= k
    IN  IF diff = {} THEN 0 ELSE IF at(a, first) > at(b, first) THEN 1 ELSE -1

\* the natural number plus one, minus one (of a positive one)
Increment(a) ==
    LET low == { i \in 1..Len(a) : a[i] # 9 }
        k == CHOOSE i \in low : \A j \in low : j <= i
    IN  IF low = {} THEN <<1>> \o [i \in 1..Len(a) |-> 0]
        ELSE [i \in 1..Len(a) |-> IF i < k THEN a[i] ELSE IF i = k THEN a[k] + 1 ELSE 0]
             \o <<>>

Decrement(a) ==
    LET high == { i \in 1..Len(a) : a[i] # 0 }
        k == CHOOSE i \in high : \A j \in high : j <= i
    IN  [i \in 1..Len(a) |-> IF i < k THEN a[i] ELSE IF i = k THEN a[k] - 1 ELSE 9] \o <<>>

IntegerPart(x) == SubSeq(x.d, 1, Len(x.d) - x.p)
FractionPart(x) == SubSeq(x.d, Len(x.d) - x.p + 1, Len(x.d))

\* -1, 0 or 1 as the fraction of the number is below, equal to or above 1/2
CompareHalf(frac) ==
    IF frac = <<>> \/ frac[1] < 5 THEN -1
    ELSE IF frac[1] > 5 \/ \E i \in 2..Len(frac) : frac[i] # 0 THEN 1
    ELSE 0

\* 2^52 and 2^53; the least and the greatest binary exponent of a double
\* with a 53-bit significand
Two52 == <<4,5,0,3,5,9,9,6,2,7,3,7,0,4,9,6>>
Two53 == <<9,0,0,7,1,9,9,2,5,4,7,4,0,9,9,2>>
MinExponent == -1074
MaxExponent == 971

\* the number over 2^e, with e moved until the integer part has 53 bits or
\* e is the least exponent
RECURSIVE Normalized(_, _)
Normalized(x, e) ==
    IF CompareNat(IntegerPart(x), Two53) >= 0
    THEN CHOOSE r \in { Normalized(y, e + 1) : y \in { Halve(x) } } : TRUE
    ELSE IF CompareNat(IntegerPart(x), Two52) < 0 /\ e > MinExponent
    THEN CHOOSE r \in { Normalized(y, e - 1) : y \in { Double(x) } } : TRUE
    ELSE [x |-> x, e |-> e]

\* the significand's digits q and the exponent e of the double nearest to
\* the number at.x * 2^at.e, ties to even
Rounded(at) ==
    LET floor == IntegerPart(at.x)
        half == CompareHalf(FractionPart(at.x))
        up == half > 0 \/ (half = 0 /\ floor # <<>> /\ floor[Len(floor)] % 2 = 1)
        q == IF up THEN Increment(floor) ELSE floor
    IN  IF CompareNat(q, Two53) = 0 THEN [q |-> Two52, e |-> at.e + 1]
        ELSE [q |-> q, e |-> at.e]

\* the double nearest to 0.digits * 10^decpt
NearestDouble(digits, decpt) ==
    LET n == Len(digits)
        x == IF decpt >= n THEN Dec(digits \o [i \in 1..(decpt - n) |-> 0], 0)
             ELSE IF decpt >= 0 THEN Dec(digits, n - decpt)
             ELSE Dec([i \in 1..(-decpt) |-> 0] \o digits, n - decpt)
        guess == ((decpt * 33219) \div 10000) - 53
        e0 == IF guess < MinExponent THEN MinExponent ELSE guess
    IN  CHOOSE r \in { Rounded(at) : at \in { Normalized(Scaled(x, -e0), e0) } } : TRUE

\* the digits before index cut of w, then zeros
Truncated(w, cut) == [i \in 1..Len(w) |-> IF i <= cut THEN w[i] ELSE 0] \o <<>>

\* c lies between l and h (both included when even, neither otherwise)
Inside(l, h, even, c) ==
    IF even THEN CompareNat(l, c) <= 0 /\ CompareNat(c, h) <= 0
    ELSE CompareNat(l, c) < 0 /\ CompareNat(c, h) < 0

\* the index of the first and of the last digit of w that is not zero
FirstNonZero(w) == CHOOSE i \in 1..Len(w) : w[i] # 0 /\ \A j \in 1..(i - 1) : w[j] = 0
LastNonZero(w) == CHOOSE i \in 1..Len(w) : w[i] # 0 /\ \A j \in (i + 1)..Len(w) : w[j] = 0

\* w cut after index cut, rounded down and rounded up
Below(w, cut) == Truncated(w, cut)
Above(w, cut) ==
    Truncated(Increment(SubSeq(w, 1, cut)) \o SubSeq(w, cut + 1, Len(w)), cut)

\* of the two roundings of w after index cut, the one between l and h, the
\* nearer to w when both are (rest compares what was cut off with a half);
\* <<>> when neither is
Nearer(w, cut, rest, below, above, low, high) ==
    IF low /\ high
    THEN IF rest < 0 \/ (rest = 0 /\ w[cut] % 2 = 0) THEN below ELSE above
    ELSE IF low THEN below
    ELSE IF high THEN above
    ELSE <<>>

Pick(w, l, h, even, cut) ==
    IF cut >= Len(w) THEN w
    ELSE Nearer(w, cut, CompareHalf(SubSeq(w, cut + 1, Len(w))),
                Below(w, cut), Above(w, cut),
                Inside(l, h, even, Below(w, cut)), Inside(l, h, even, Above(w, cut)))

\* the roundings of w to 1 .. 17 significant digits
Picks(w, l, h, even) ==
    [n \in 1..17 |-> Pick(w, l, h, even, FirstNonZero(w) + n - 1)] \o <<>>

\* the rounding with the fewest digits
FirstPick(picks) ==
    picks[CHOOSE n \in 1..17 : picks[n] # <<>> /\ \A m \in 1..(n - 1) : picks[m] = <<>>]

\* the digits of best from its first to its last non-zero digit, and the
\* number of integer digits, p digits of best being fractional
Trimmed(best, p, first, last) ==
    [digits |-> [i \in 1..(last - first + 1) |-> HexDigits[best[first + i - 1] + 1]] \o <<>>,
     decpt |-> Len(best) - p - first + 1]

\* the shortest decimal from l to h (both included when even, neither
\* otherwise), the nearest to w when there are several; the three are digit
\* sequences of one length that begin with a zero, p digits fractional
ShortestBetween(w, l, h, p, even) ==
    CHOOSE r \in
      { Trimmed(best, p, FirstNonZero(best), LastNonZero(best)) :
          best \in { FirstPick(picks) : picks \in { Picks(w, l, h, even) } } } : TRUE

\* the shortest decimal that float() reads back as the double q * 2^e, the
\* nearest to it when there are several: its digits and how many of them
\* are integer digits.  The decimals that round to the double lie half way
\* to its neighbours, a quarter below a power of two
ShortestDecimal(q, e) ==
    LET narrow == CompareNat(q, Two52) = 0 /\ e > MinExponent
        unit == IF narrow THEN e - 2 ELSE e - 1
        twice == Double(Dec(<<0>> \o q, 0)).d
        w0 == IF narrow THEN Double(Dec(twice, 0)).d ELSE twice
        l0 == Decrement(w0)
        h0 == IF narrow THEN Increment(Increment(w0)) ELSE Increment(w0)
        width == Len(h0) + 1
        pad(a) == [i \in 1..(width - Len(a)) |-> 0] \o a
        fit(a, len) == [i \in 1..(len + 1 - Len(a)) |-> 0] \o a
    IN  CHOOSE r \in
          { ShortestBetween(fit(W.d, Len(H.d)), fit(L.d, Len(H.d)), fit(H.d, Len(H.d)),
                            W.p, q[Len(q)] % 2 = 0) :
              W \in { Scaled(Dec(pad(w0), 0), unit) },
              L \in { Scaled(Dec(pad(l0), 0), unit) },
              H \in { Scaled(Dec(pad(h0), 0), unit) } } : TRUE

\* the repr of the double q * 2^e
DoubleRepr(sign, double) ==
    IF double.e > MaxExponent THEN sign \o <<"i", "n", "f">>
    ELSE IF \A i \in 1..Len(double.q) : double.q[i] = 0 THEN sign \o <<"0", ".", "0">>
    ELSE CHOOSE r \in
           { sign \o FloatFormat(shortest.digits, shortest.decpt) :
               shortest \in { ShortestDecimal(double.q, double.e) } } : TRUE

\* the repr of float() of 0.digits * 10^decpt
DecimalRepr(sign, digits, decpt) ==
    IF digits = <<>> \/ decpt < -330 THEN sign \o <<"0", ".", "0">>
    ELSE IF decpt > 310 THEN sign \o <<"i", "n", "f">>
    ELSE CHOOSE r \in
           { DoubleRepr(sign, double) : double \in { NearestDouble(digits, decpt) } } : TRUE

\* the repr of float(numeral) for the numeral with the given sign, integer
\* digits, fraction digits and exponent
float_repr(negative, int, frac, exp) ==
    LET all == int \o frac
        lead == RunEnd(all, 1, {"0"}) - 1
        chars == StripZerosRight(SubSeq(all, lead + 1, Len(all)))
    IN  DecimalRepr(IF negative THEN <<"-">> ELSE <<>>,
                    [i \in 1..Len(chars) |-> DigitNat[chars[i]]] \o <<>>,
                    Len(int) - lead + exp)

\* the exponent of a numeral: its value when, leading zeros apart, it has at
\* most nine digits, and MaxAbsExp when it has more
Exponent(sign, digits) ==
    LET d == StripZerosLeft(digits)
        magnitude == IF Len(d) > 9 THEN MaxAbsExp ELSE NatOf(d)
    IN  IF sign = "-" THEN -magnitude ELSE magnitude

\* a decoded value and the index after it, or the exception raised
Decoded(val, end) == [err |-> "", val |-> val, end |-> end]
Failed(exception) == [err |-> exception.type]

\* json.scanner's number match at index start: int(numeral) or
\* float(numeral); int() raises ValueError for more than MaxStrDigits
\* digits, float() for more than MaxDigits digits counted from the first
\* non-zero one or more than MaxDigits digits after the point
match_number(s, start) ==
    LET n == Len(s)
        negative == s[start] = "-"
        i1 == IF negative THEN start + 1 ELSE start
        i2 == IF s[i1] = "0" THEN i1 + 1 ELSE RunEnd(s, i1, JsonDigits)
        hasFrac == i2 < n /\ s[i2] = "." /\ s[i2 + 1] \in JsonDigits
        i3 == IF hasFrac THEN RunEnd(s, i2 + 2, JsonDigits) ELSE i2
        atExp == i3 < n /\ s[i3] \in {"e", "E"}
        signed == atExp /\ i3 + 1 < n /\ s[i3 + 1] \in {"+", "-"}
        i4 == IF signed THEN i3 + 2 ELSE i3 + 1
        i5 == RunEnd(s, i4, JsonDigits)
        hasExp == atExp /\ i5 > i4
        exp == IF hasExp
               THEN Exponent(IF signed THEN s[i3 + 1] ELSE "+", SubSeq(s, i4, i5 - 1))
               ELSE 0
        fraclen == IF hasFrac THEN i3 - i2 - 1 ELSE 0
        ndigits == IF s[i1] # "0" THEN i2 - i1 + fraclen
                   ELSE IF hasFrac THEN i3 - RunEnd(s, i2 + 1, {"0"})
                   ELSE 0
    IN  IF i1 > n \/ s[i1] \notin JsonDigits THEN Failed(JSONDecodeError)
        ELSE IF (hasFrac \/ hasExp) /\ (ndigits > MaxDigits \/ fraclen > MaxDigits)
        THEN Failed(ValueError)
        ELSE IF hasFrac \/ hasExp
        THEN Decoded(MetaFloat(float_repr(negative, SubSeq(s, i1, i2 - 1),
                                          SubSeq(s, i2 + 1, i3 - 1), exp)),
                     IF hasExp THEN i5 ELSE i3)
        ELSE IF i2 - i1 > MaxStrDigits THEN Failed(ValueError)
        ELSE Decoded(MetaInt(IF SubSeq(s, start, i2 - 1) = <<"-", "0">> THEN <<"0">>
                             ELSE SubSeq(s, start, i2 - 1)), i2)

\* the character a backslash escape stands for
BACKSLASH ==
    [c \in {"\"", "\\", "/", "b", "f", "n", "r", "t"} |->
        CASE c = "b" -> "u0008" [] c = "f" -> "u000c" [] c = "n" -> "\n"
          [] c = "r" -> "u000d" [] c = "t" -> "\t" [] OTHER -> c]

\* the code of the four hex digits at index i, -1 when they are not there
Hex4(s, i) ==
    IF i + 3 <= Len(s) /\ \A k \in i..(i + 3) : IsHex(s[k])
    THEN HexValue(s[i]) * 4096 + HexValue(s[i + 1]) * 256
         + HexValue(s[i + 2]) * 16 + HexValue(s[i + 3])
    ELSE -1

\* json.decoder.scanstring from the index after the opening quote, strict
RECURSIVE scanstring(_, _, _)
scanstring(s, begin, acc) ==
    LET ends == { j \in begin..Len(s) : s[j] \in {"\"", "\\"} }
        end == IF ends = {} THEN Len(s) + 1
               ELSE CHOOSE j \in ends : \A k \in ends : j <= k
        chunk == acc \o SubSeq(s, begin, end - 1)
        uni == Hex4(s, end + 2)
        low == IF HasAt(s, end + 6, <<"\\", "u">>) THEN Hex4(s, end + 8) ELSE -1
    IN  IF \E j \in begin..(end - 1) : s[j] \in ControlChars THEN Failed(JSONDecodeError)
        ELSE IF end > Len(s) THEN Failed(JSONDecodeError)
        ELSE IF s[end] = "\"" THEN Decoded(chunk, end + 1)
        ELSE IF end + 1 > Len(s) THEN Failed(JSONDecodeError)
        ELSE IF s[end + 1] = "u"
        THEN IF uni < 0 THEN Failed(JSONDecodeError)
             ELSE IF uni >= 55296 /\ uni <= 56319 /\ low >= 56320 /\ low <= 57343
             THEN scanstring(s, end + 12,
                      Append(chunk, CharOf(65536 + (uni - 55296) * 1024 + (low - 56320))))
             ELSE scanstring(s, end + 6, Append(chunk, CharOf(uni)))
        ELSE IF s[end + 1] \in DOMAIN BACKSLASH
        THEN scanstring(s, end + 2, Append(chunk, BACKSLASH[s[end + 1]]))
        ELSE Failed(JSONDecodeError)

\* dict[key] = value
DictPut(items, key, value) ==
    IF \E i \in 1..Len(items) : items[i][1] = key
    THEN [i \in 1..Len(items) |-> IF items[i][1] = key THEN <<key, value>> ELSE items[i]]
    ELSE Append(items, <<key, value>>)

\* json.scanner.scan_once at index idx; depth counts the lists and dicts
\* entered and the frames between invoke_chaincode and parse_metadata
RECURSIVE scan_once(_, _, _)
RECURSIVE JSONArray(_, _, _, _)
RECURSIVE JSONObject(_, _, _, _)

\* a list after its element item: the end of the list or the next element
JSONArrayNext(s, depth, acc, item) ==
    LET next == SkipWhitespace(s, item.end)
    IN  IF item.err # "" THEN item
        ELSE IF next > Len(s) THEN Failed(JSONDecodeError)
        ELSE IF s[next] = "]" THEN Decoded(MetaList(Append(acc, item.val)), next + 1)
        ELSE IF s[next] = ","
        THEN JSONArray(s, SkipWhitespace(s, next + 1), depth, Append(acc, item.val))
        ELSE Failed(JSONDecodeError)

\* the elements of a list from the index of an element on
JSONArray(s, idx, depth, acc) ==
    CHOOSE r \in
      { JSONArrayNext(s, depth, acc, item) : item \in { scan_once(s, idx, depth) } } : TRUE

\* a dict after the pair of key and item: the end of the dict or the next pair
JSONObjectNext(s, depth, acc, key, item) ==
    LET next == SkipWhitespace(s, item.end)
    IN  IF item.err # "" THEN item
        ELSE IF next > Len(s) THEN Failed(JSONDecodeError)
        ELSE IF s[next] = "}"
        THEN Decoded(MetaDict(DictPut(acc, key.val, item.val)), next + 1)
        ELSE IF s[next] = ","
        THEN JSONObject(s, SkipWhitespace(s, next + 1), depth,
                        DictPut(acc, key.val, item.val))
        ELSE Failed(JSONDecodeError)

\* a dict after the key of a pair: the colon and the value
JSONObjectValue(s, depth, acc, key) ==
    LET colon == SkipWhitespace(s, key.end)
    IN  IF key.err # "" THEN key
        ELSE IF colon > Len(s) \/ s[colon] # ":" THEN Failed(JSONDecodeError)
        ELSE CHOOSE r \in
               { JSONObjectNext(s, depth, acc, key, item) :
                   item \in { scan_once(s, SkipWhitespace(s, colon + 1), depth) } } : TRUE

\* the pairs of a dict from the index of a key on
JSONObject(s, idx, depth, acc) ==
    IF idx > Len(s) \/ s[idx] # "\"" THEN Failed(JSONDecodeError)
    ELSE CHOOSE r \in
           { JSONObjectValue(s, depth, acc, key) :
               key \in { scanstring(s, idx + 1, <<>>) } } : TRUE

scan_once(s, idx, depth) ==
    IF idx > Len(s) THEN Failed(JSONDecodeError)
    ELSE CASE s[idx] = "\"" ->
                 LET string == scanstring(s, idx + 1, <<>>)
                 IN  IF string.err # "" THEN string
                     ELSE Decoded(MetaText(string.val), string.end)
           [] s[idx] = "{" ->
                 LET first == SkipWhitespace(s, idx + 1)
                 IN  IF depth >= NestingLimit THEN Failed(RecursionError)
                     ELSE IF first <= Len(s) /\ s[first] = "}"
                     THEN Decoded(EmptyDict, first + 1)
                     ELSE JSONObject(s, first, depth + 1, <<>>)
           [] s[idx] = "[" ->
                 LET first == SkipWhitespace(s, idx + 1)
                 IN  IF depth >= NestingLimit THEN Failed(RecursionError)
                     ELSE IF first <= Len(s) /\ s[first] = "]"
                     THEN Decoded(MetaList(<<>>), first + 1)
                     ELSE JSONArray(s, first, depth + 1, <<>>)
           [] HasAt(s, idx, <<"n","u","l","l">>) -> Decoded(None, idx + 4)
           [] HasAt(s, idx, <<"t","r","u","e">>) -> Decoded(MetaBool(TRUE), idx + 4)
           [] HasAt(s, idx, <<"f","a","l","s","e">>) -> Decoded(MetaBool(FALSE), idx + 5)
           [] HasAt(s, idx, <<"N","a","N">>) ->
                 Decoded(MetaFloat(<<"n","a","n">>), idx + 3)
           [] HasAt(s, idx, <<"I","n","f","i","n","i","t","y">>) ->
                 Decoded(MetaFloat(<<"i","n","f">>), idx + 8)
           [] HasAt(s, idx, <<"-","I","n","f","i","n","i","t","y">>) ->
                 Decoded(MetaFloat(<<"-","i","n","f">>), idx + 9)
           [] OTHER -> match_number(s, idx)

\* the value json.loads returns for the decoded obj, or the exception raised
Loaded(text, obj) ==
    IF obj.err # "" THEN [type |-> obj.err]
    ELSE IF SkipWhitespace(text, obj.end) # Len(text) + 1 THEN JSONDecodeError
    ELSE obj.val

\* json.loads of a text, called frames frames below invoke_chaincode's own
\* call of parse_metadata: the value, or the exception raised
json_loads_text(text, frames) ==
    IF text # <<>> /\ text[1] = "ufeff" THEN JSONDecodeError
    ELSE CHOOSE r \in
           { Loaded(text, obj) :
               obj \in { scan_once(text, SkipWhitespace(text, 1), frames) } } : TRUE

\* whether evaluating a value raised an exception that is not handled yet
Raised(value) == value \in {ValueError, RecursionError}

\* utils.parse_metadata of a str: a JSONDecodeError is swallowed, any other
\* exception of json.loads propagates; frames is 0 for the call made by
\* invoke_chaincode and 1 for the call made by the handler it invokes
parse_metadata(metadata_str, frames) ==
    IF metadata_str = <<>> THEN EmptyDict
    ELSE CHOOSE r \in
           { IF value = JSONDecodeError THEN EmptyDict ELSE value :
               value \in { json_loads_text(metadata_str, frames) } } : TRUE

\* json.encoder.encode_basestring_ascii of one character
EscapeAscii(c) ==
    CASE c = "\"" -> <<"\\", "\"">>
      [] c = "\\" -> <<"\\", "\\">>
      [] c = "\n" -> <<"\\", "n">>
      [] c = "u000d" -> <<"\\", "r">>
      [] c = "\t" -> <<"\\", "t">>
      [] c = "u000c" -> <<"\\", "f">>
      [] c = "u0008" -> <<"\\", "b">>
      [] c = "u0060" -> <<c>>
      [] OTHER ->
           IF Len(c) = 1 THEN <<c>>
           ELSE LET code == CodeOf(c)
                    unit(n) == <<"\\", "u", HexDigits[((n \div 4096) % 16) + 1],
                                 HexDigits[((n \div 256) % 16) + 1],
                                 HexDigits[((n \div 16) % 16) + 1], HexDigits[(n % 16) + 1]>>
                IN  IF code < 65536 THEN unit(code)
                    ELSE unit(55296 + ((code - 65536) \div 1024))
                         \o unit(56320 + ((code - 65536) % 1024))

RECURSIVE EscapeString(_)
EscapeString(s) ==
    IF s = <<>> THEN <<>> ELSE EscapeAscii(Head(s)) \o EscapeString(Tail(s))

encode_basestring_ascii(s) == <<"\"">> \o EscapeString(s) \o <<"\"">>

\* the parts joined by ", "
RECURSIVE JoinParts(_)
JoinParts(parts) ==
    IF parts = <<>> THEN <<>>
    ELSE IF Len(parts) = 1 THEN parts[1]
    ELSE parts[1] \o <<",", " ">> \o JoinParts(Tail(parts))

\* json.dumps of a value, as the client sends a metadata dict
RECURSIVE json_dumps_text(_)
json_dumps_text(value) ==
    IF value = None THEN <<"n","u","l","l">>
    ELSE CASE value.type = "bool" ->
                 IF value.val THEN <<"t","r","u","e">> ELSE <<"f","a","l","s","e">>
           [] value.type = "int" -> value.text
           [] value.type = "float" ->
                 IF value.text = <<"n","a","n">> THEN <<"N","a","N">>
                 ELSE IF value.text = <<"i","n","f">> THEN <<"I","n","f","i","n","i","t","y">>
                 ELSE IF value.text = <<"-","i","n","f">>
                 THEN <<"-","I","n","f","i","n","i","t","y">>
                 ELSE value.text
           [] value.type = "str" -> encode_basestring_ascii(value.text)
           [] value.type = "list" ->
                 <<"[">> \o JoinParts([i \in 1..Len(value.items) |->
                                          json_dumps_text(value.items[i])]) \o <<"]">>
           [] value.type = "dict" ->
                 <<"{">> \o JoinParts([i \in 1..Len(value.items) |->
                                          encode_basestring_ascii(value.items[i][1])
                                          \o <<":", " ">>
                                          \o json_dumps_text(value.items[i][2])])
                 \o <<"}">>

\* whether str.encode('utf-8') accepts the string
Encodable(s) == \A i \in 1..Len(s) : s[i] \notin Surrogates

\* whether every str of a JSON value can be encoded
RECURSIVE MetaEncodable(_)
MetaEncodable(value) ==
    IF value = None THEN TRUE
    ELSE CASE value.type = "str" -> Encodable(value.text)
           [] value.type = "list" ->
                 \A i \in 1..Len(value.items) : MetaEncodable(value.items[i])
           [] value.type = "dict" ->
                 \A i \in 1..Len(value.items) :
                    Encodable(value.items[i][1]) /\ MetaEncodable(value.items[i][2])
           [] OTHER -> TRUE

\* the nesting of lists and dicts in a JSON value
RECURSIVE MetaDepth(_)
MetaDepth(value) ==
    IF value = None \/ value.type \notin {"list", "dict"} THEN 0
    ELSE LET inner == { IF value.type = "list" THEN MetaDepth(value.items[i])
                        ELSE MetaDepth(value.items[i][2]) : i \in 1..Len(value.items) }
         IN  1 + (IF inner = {} THEN 0 ELSE CHOOSE d \in inner : \A e \in inner : e <= d)

\* whether json.dumps(value, ensure_ascii=False).encode('utf-8') of a task
\* record returns: every str is encodable and no metadata is nested too deep
Serializable(task) ==
    /\ \A f \in (DOMAIN task) \ {"documents", "created_at", "updated_at"} :
          Encodable(task[f])
    /\ \A i \in 1..Len(task.documents) :
          /\ Encodable(task.documents[i].document_id)
          /\ \A j \in 1..Len(task.documents[i].versions) :
                LET v == task.documents[i].versions[j]
                IN  /\ \A f \in {"document_id", "version", "content_hash", "uploaded_by"} :
                          Encodable(v[f])
                    /\ MetaEncodable(v.metadata)
                    /\ MetaDepth(v.metadata) <= StorableNesting

\* -------------------------------------------------- ledger stub and store
\* json.dumps / json.loads of the aggregate: the stored text is the tagged
\* serialisation of a value built from str, list, dict and int only
json_dumps(value) == [json |-> value]
json_loads(text) == text.json

\* ChaincodeStub.get_state: the stored text, or b'' when the key is unset
stub_get_state(state, key) ==
    IF key \in DOMAIN state THEN state[key] ELSE None

\* ChaincodeStub.put_state
stub_put_state(state, key, value) == DictSet(state, key, value)

\* StateManager.get_state: the record, or None when the key is absent or
\* the read raises (fault)
get_state(state, key, fault) ==
    IF fault THEN None
    ELSE IF stub_get_state(state, key) = None THEN None
    ELSE json_loads(stub_get_state(state, key))

\* StateManager.put_state: [ok, state]; a value that cannot be serialised
\* and a raising stub leave the state alone
put_state(state, key, value, fault) ==
    IF fault \/ ~Serializable(value) THEN [ok |-> FALSE, state |-> state]
    ELSE [ok |-> TRUE, state |-> stub_put_state(state, key, json_dumps(value))]

\* ------------------------------------------------------- workflow engine
\* Every handler is a function of the ledger state, its arguments, the
\* successive clock readings ts (one per datetime.utcnow() call, in call
\* order) and the faults of the ledger read and write; it yields the
\* envelope, the ledger state after it and the number of clock readings.

\* a failure envelope returned before the ledger is touched; gets and puts
\* count the calls to StateManager.get_state and StateManager.put_state
Fail(state, error, ts) ==
    [res |-> format_response(FALSE, None, error, ts[1]), state |-> state, reads |-> 1,
     gets |-> 0, puts |-> 0]

\* a failure envelope returned after the task was looked up
FailAfterRead(state, error, ts) ==
    [res |-> format_response(FALSE, None, error, ts[1]), state |-> state, reads |-> 1,
     gets |-> 1, puts |-> 0]

\* NewTask with the initial status taken to be IN_PROGRESS
NewTask_started(task_id, title, description, assignee, creator, ts) ==
    [task_id |-> task_id, title |-> title, description |-> description,
     assignee |-> assignee, creator |-> creator,
     status |-> TASK_STATUS_IN_PROGRESS,
     created_at |-> ts[1],
     updated_at |-> ts[2],
     documents |-> <<>>]

\* the task record built by create_task
NewTask(task_id, title, description, assignee, creator, ts) ==
    [task_id |-> task_id, title |-> title, description |-> description,
     assignee |-> assignee, creator |-> creator,
     status |-> TASK_STATUS_CREATED,
     created_at |-> ts[1],
     updated_at |-> ts[2],
     documents |-> <<>>]

\* create_task that also keeps the task under a key that lists the tasks
create_task_indexed(state, task_id, title, description, assignee, creator, ts, getFault, putFault) ==
    LET valid == validate_task_data([task_id |-> task_id, title |-> title,
                     description |-> description, assignee |-> assignee,
                     creator |-> creator])
        task_key == create_task_key(sanitize_string(task_id))
        existing_task == get_state(state, task_key, getFault)
        task == NewTask(sanitize_string(task_id), sanitize_string(title),
                        sanitize_string(description), sanitize_string(assignee),
                        sanitize_string(creator), ts)
        put == put_state(state, task_key, task, putFault)
        index == put_state(put.state, <<"T","A","S","K","S">>, task, putFault)
    IN  IF valid # "ok" THEN Fail(state, valid, ts)
        ELSE IF Truthy(existing_task) THEN FailAfterRead(state, "task_exists", ts)
        ELSE IF put.ok
             THEN [res |-> format_response(TRUE, [task |-> task], "", ts[3]),
                   state |-> index.state, reads |-> 3,
                   gets |-> 1, puts |-> 2]
             ELSE [res |-> format_response(FALSE, None, "put_failed", ts[3]),
                   state |-> put.state, reads |-> 3,
                   gets |-> 1, puts |-> 1]

\* NPAChaincode.create_task
create_task(state, task_id, title, description, assignee, creator, ts, getFault, putFault) ==
    LET valid == validate_task_data([task_id |-> task_id, title |-> title,
                     description |-> description, assignee |-> assignee,
                     creator |-> creator])
        task_key == create_task_key(sanitize_string(task_id))
        existing_task == get_state(state, task_key, getFault)
        task == NewTask(sanitize_string(task_id), sanitize_string(title),
                        sanitize_string(description), sanitize_string(assignee),
                        sanitize_string(creator), ts)
        put == put_state(state, task_key, task, putFault)
    IN  IF valid # "ok" THEN Fail(state, valid, ts)
        ELSE IF Truthy(existing_task) THEN FailAfterRead(state, "task_exists", ts)
        ELSE IF put.ok
             THEN [res |-> format_response(TRUE, [task |-> task], "", ts[3]),
                   state |-> put.state, reads |-> 3,
                   gets |-> 1, puts |-> 1]
             ELSE [res |-> format_response(FALSE, None, "put_failed", ts[3]),
                   state |-> put.state, reads |-> 3,
                   gets |-> 1, puts |-> 1]

\* ApplyStatus that leaves updated_by as it was
ApplyStatus_no_actor(task, status, updated_by, ts) ==
    DictSet(DictSet(task, "status", status), "updated_at", ts[1])

\* ApplyStatus that stamps the update with the epoch instead of the clock
ApplyStatus_epoch(task, status, updated_by, ts) ==
    DictSet(DictSet(DictSet(task, "status", status), "updated_at", 0),
            "updated_by", updated_by)

\* the status update of update_task_status, applied to the task read
ApplyStatus(task, status, updated_by, ts) ==
    DictSet(DictSet(DictSet(task, "status", status), "updated_at", ts[1]),
            "updated_by", updated_by)

\* update_task_status with COMPLETED and CANCELLED made terminal
update_task_status_terminal(state, task_id, new_status, updated_by, ts, getFault, putFault) ==
    LET status == upper(sanitize_string(new_status))
        task_key == create_task_key(sanitize_string(task_id))
        task == get_state(state, task_key, getFault)
        old_status == DictGet(task, "status")
        updated == DictSet(DictSet(DictSet(task, "status", status), "updated_at", ts[1]),
                           "updated_by", sanitize_string(updated_by))
        put == put_state(state, task_key, updated, putFault)
    IN  IF Falsy(task_id) \/ Falsy(new_status) \/ Falsy(updated_by)
        THEN Fail(state, "params_required", ts)
        ELSE IF ~validate_status(status) THEN Fail(state, "invalid_status", ts)
        ELSE IF ~Truthy(task) THEN FailAfterRead(state, "task_not_found", ts)
        ELSE IF old_status \in {TASK_STATUS_COMPLETED, TASK_STATUS_CANCELLED}
        THEN FailAfterRead(state, "invalid_transition", ts)
        ELSE IF put.ok
             THEN [res |-> format_response(TRUE,
                              [task |-> updated, old_status |-> old_status,
                               new_status |-> status], "", ts[2]),
                   state |-> put.state, reads |-> 2,
                   gets |-> 1, puts |-> 1]
             ELSE [res |-> format_response(FALSE, None, "put_failed", ts[2]),
                   state |-> put.state, reads |-> 2,
                   gets |-> 1, puts |-> 1]

\* update_task_status that writes a second time when the first write fails
update_task_status_retry(state, task_id, new_status, updated_by, ts, getFault, putFault) ==
    LET status == upper(sanitize_string(new_status))
        task_key == create_task_key(sanitize_string(task_id))
        task == get_state(state, task_key, getFault)
        old_status == DictGet(task, "status")
        updated == ApplyStatus(task, status, sanitize_string(updated_by), ts)
        first == put_state(state, task_key, updated, putFault)
        put == IF first.ok THEN first ELSE put_state(state, task_key, updated, FALSE)
    IN  IF Falsy(task_id) \/ Falsy(new_status) \/ Falsy(updated_by)
        THEN Fail(state, "params_required", ts)
        ELSE IF ~validate_status(status) THEN Fail(state, "invalid_status", ts)
        ELSE IF ~Truthy(task) THEN FailAfterRead(state, "task_not_found", ts)
        ELSE [res |-> format_response(TRUE,
                         [task |-> updated, old_status |-> old_status,
                          new_status |-> status], "", ts[2]),
              state |-> put.state, reads |-> 2,
              gets |-> 1, puts |-> IF first.ok THEN 1 ELSE 2]

\* NPAChaincode.update_task_status
update_task_status(state, task_id, new_status, updated_by, ts, getFault, putFault) ==
    LET status == upper(sanitize_string(new_status))
        task_key == create_task_key(sanitize_string(task_id))
        task == get_state(state, task_key, getFault)
        old_status == DictGet(task, "status")
        updated == ApplyStatus(task, status, sanitize_string(updated_by), ts)
        put == put_state(state, task_key, updated, putFault)
    IN  IF Falsy(task_id) \/ Falsy(new_status) \/ Falsy(updated_by)
        THEN Fail(state, "params_required", ts)
        ELSE IF ~validate_status(status) THEN Fail(state, "invalid_status", ts)
        ELSE IF ~Truthy(task) THEN FailAfterRead(state, "task_not_found", ts)
        ELSE IF put.ok
             THEN [res |-> format_response(TRUE,
                              [task |-> updated, old_status |-> old_status,
                               new_status |-> status], "", ts[2]),
                   state |-> put.state, reads |-> 2,
                   gets |-> 1, puts |-> 1]
             ELSE [res |-> format_response(FALSE, None, "put_failed", ts[2]),
                   state |-> put.state, reads |-> 2,
                   gets |-> 1, puts |-> 1]

\* the documents list of a task ("documents" not in task: [])
DocumentsOf(task) == IF "documents" \in DOMAIN task THEN task.documents ELSE <<>>

\* the versions list of a document ("versions" not in doc: [])
VersionsOf(doc) == IF "versions" \in DOMAIN doc THEN doc.versions ELSE <<>>

\* positions of the documents whose document_id is document_id
Matching(documents, document_id) ==
    {i \in 1..Len(documents) : documents[i].document_id = document_id}

\* the linear scan "for doc in documents: if doc.get("document_id") == document_id"
\* stops at the first match (break); 0 when there is none
FindDocument(documents, document_id) ==
    IF Matching(documents, document_id) = {} THEN 0
    ELSE CHOOSE i \in Matching(documents, document_id) :
             \A j \in Matching(documents, document_id) : i <= j

\* the metadata normalisation at the head of add_document_version: the value
\* stored, or the exception json.loads raised
NormalizeMetadata(metadata) ==
    IF metadata = None THEN EmptyDict
    ELSE IF metadata.type = "str" THEN parse_metadata(metadata.text, 1)
    ELSE metadata

\* the attachment of add_document_version: the version is appended to the
\* first document with this document_id, or a new document is appended
AttachVersion(documents, document_id, document_version, ts) ==
    IF FindDocument(documents, document_id) # 0
    THEN [documents EXCEPT ![FindDocument(documents, document_id)] =
             DictSet(@, "versions", Append(VersionsOf(@), document_version))]
    ELSE Append(documents, [document_id |-> document_id,
                            created_at |-> ts[2],
                            versions |-> <<document_version>>])

\* add_document_version from the attachment on: the version is attached to
\* the task read, the task is written, and the envelope is made at the next
\* reading of the clock
AttachAndStore(state, task_key, task, doc_id, document_version, ts, putFault) ==
    LET documents == DocumentsOf(task)
        \* get_current_timestamp() is read once more when the document is new
        n == IF FindDocument(documents, doc_id) # 0 THEN 2 ELSE 3
        updated == DictSet(DictSet(task, "documents",
                                   AttachVersion(documents, doc_id, document_version, ts)),
                           "updated_at", ts[n])
    IN  CHOOSE r \in
          { IF put.ok
            THEN [res |-> format_response(TRUE,
                             [task |-> updated,
                              document_version |-> document_version], "", ts[n + 1]),
                  state |-> put.state, reads |-> n + 1,
                  gets |-> 1, puts |-> 1]
            ELSE [res |-> format_response(FALSE, None, "put_failed", ts[n + 1]),
                  state |-> put.state, reads |-> n + 1,
                  gets |-> 1, puts |-> 1] :
              put \in { put_state(state, task_key, updated, putFault) } } : TRUE

\* NPAChaincode.add_document_version
add_document_version(state, task_id, document_id, version, content_hash, uploaded_by, metadata, ts, getFault, putFault) ==
    LET valid == validate_document_version_data([version |-> version,
                     content_hash |-> content_hash, uploaded_by |-> uploaded_by])
        task_key == create_task_key(sanitize_string(task_id))
    IN  IF valid # "ok" THEN Fail(state, valid, ts)
        ELSE CHOOSE r \in
               { IF Raised(normalized) THEN Fail(state, normalized.type, ts)
                 ELSE IF ~Truthy(task) THEN FailAfterRead(state, "task_not_found", ts)
                 ELSE AttachAndStore(state, task_key, task, sanitize_string(document_id),
                                     [document_id |-> sanitize_string(document_id),
                                      version |-> sanitize_string(version),
                                      content_hash |-> sanitize_string(content_hash),
                                      uploaded_by |-> sanitize_string(uploaded_by),
                                      uploaded_at |-> ts[1],
                                      metadata |-> normalized],
                                     ts, putFault) :
                   normalized \in { NormalizeMetadata(metadata) },
                   task \in { get_state(state, task_key, getFault) } } : TRUE

\* NPAChaincode.get_document_versions
get_document_versions(state, task_id, document_id, ts, getFault) ==
    LET id == sanitize_string(task_id)
        doc_id == sanitize_string(document_id)
        task == get_state(state, create_task_key(id), getFault)
        found == FindDocument(DocumentsOf(task), doc_id)
        versions == VersionsOf(DocumentsOf(task)[found])
    IN  IF Falsy(task_id) \/ Falsy(document_id)
        THEN Fail(state, "params_required", ts)
        ELSE IF ~Truthy(task) THEN FailAfterRead(state, "task_not_found", ts)
        ELSE IF found = 0 THEN FailAfterRead(state, "document_not_found", ts)
        ELSE [res |-> format_response(TRUE,
                         [task_id |-> id, document_id |-> doc_id,
                          versions |-> versions,
                          total_versions |-> Len(versions)], "", ts[1]),
              state |-> state, reads |-> 1, gets |-> 1, puts |-> 0]

\* get_task that answers for a missing task as well
get_task_lenient(state, task_id, ts, getFault) ==
    LET task == get_state(state, create_task_key(sanitize_string(task_id)), getFault)
    IN  IF Falsy(task_id) THEN Fail(state, "task_id_required", ts)
        ELSE [res |-> format_response(TRUE, [task |-> task], "", ts[1]),
              state |-> state, reads |-> 1, gets |-> 1, puts |-> 0]

\* get_task that records the reader in the task it returns
get_task_touch(state, task_id, ts, getFault) ==
    LET id == sanitize_string(task_id)
        task == get_state(state, create_task_key(id), getFault)
        touched == DictSet(task, "read_by", <<"r">>)
    IN  IF Falsy(task_id) THEN Fail(state, "task_id_required", ts)
        ELSE IF ~Truthy(task) THEN FailAfterRead(state, "task_not_found", ts)
        ELSE [res |-> format_response(TRUE, [task |-> touched], "", ts[1]),
              state |-> put_state(state, create_task_key(id), touched, FALSE).state,
              reads |-> 1, gets |-> 1, puts |-> 1]

\* NPAChaincode.get_task
get_task(state, task_id, ts, getFault) ==
    LET id == sanitize_string(task_id)
        task == get_state(state, create_task_key(id), getFault)
    IN  IF Falsy(task_id) THEN Fail(state, "task_id_required", ts)
        ELSE IF ~Truthy(task) THEN FailAfterRead(state, "task_not_found", ts)
        ELSE [res |-> format_response(TRUE, [task |-> task], "", ts[1]),
              state |-> state, reads |-> 1, gets |-> 1, puts |-> 0]

\* ------------------------------------------------------------ dispatcher
\* the dispatcher's "except Exception as e" clause after an exception raised
\* before any handler was invoked: the clause makes the first reading of the
\* clock
Excepted(state, error, ts) ==
    [res |-> format_response(FALSE, None, error, ts[1]), state |-> state,
     reads |-> 1, gets |-> 0, puts |-> 0, engine |-> <<>>]

\* an envelope returned by the dispatcher itself, inside its own try block;
\* engine lists the handlers that were invoked
Refused(state, error, ts) ==
    [res |-> format_response(FALSE, None, error, ts[1]), state |-> state,
     reads |-> 1, gets |-> 0, puts |-> 0, engine |-> <<>>]

\* the outcome of a handler, with the handler's name
Invoked(out, handler) == out @@ [engine |-> <<handler>>]

\* invoke_chaincode: function name, argument list, clock readings and the
\* faults of the ledger read and the ledger write
invoke_chaincode(state, function, args, ts, getFault, putFault) ==
    IF function = "createTask"
    THEN IF Len(args) # 5 THEN Refused(state, "wrong_argument_count", ts)
         ELSE Invoked(create_task(state, args[1], args[2], args[3], args[4],
                                  args[5], ts, getFault, putFault), "create_task")
    ELSE IF function = "updateTaskStatus"
    THEN IF Len(args) # 3 THEN Refused(state, "wrong_argument_count", ts)
         ELSE Invoked(update_task_status(state, args[1], args[2], args[3],
                                         ts, getFault, putFault), "update_task_status")
    ELSE IF function = "addDocumentVersion"
    THEN IF Len(args) < 5 THEN Refused(state, "wrong_argument_count", ts)
         ELSE CHOOSE r \in
                { IF Raised(metadata) THEN Excepted(state, metadata.type, ts)
                  ELSE Invoked(add_document_version(state, args[1], args[2],
                                   args[3], args[4], args[5], metadata,
                                   ts, getFault, putFault), "add_document_version") :
                    metadata \in { IF Len(args) > 5 THEN parse_metadata(args[6], 0)
                                   ELSE None } } : TRUE
    ELSE IF function = "getDocumentVersions"
    THEN IF Len(args) # 2 THEN Refused(state, "wrong_argument_count", ts)
         ELSE Invoked(get_document_versions(state, args[1], args[2], ts, getFault),
                      "get_document_versions")
    ELSE IF function = "getTask"
    THEN IF Len(args) # 1 THEN Refused(state, "wrong_argument_count", ts)
         ELSE Invoked(get_task(state, args[1], ts, getFault), "get_task")
    ELSE Refused(state, "unknown_function", ts)

\* ----------------------------------------------------------------- inputs
T1 == <<"T","1">>
T2 == <<"T","2">>
D1 == <<"D","1">>
D2 == <<"D","2">>
U1 == <<"u","1">>
U2 == <<"u","2">>
H1 == <<"h","1">>
H2 == <<"h","2">>
V1 == <<"1",".","0">>
V2 == <<"2",".","0">>

BOGUS == <<"B","O","G","U","S">>
CONFIRMED == <<"C","O","N","F","I","R","M","E","D">>

\* metadata texts and the dict one of them denotes; the JSON string whose
\* characters are that text; a numeral one digit longer than int() converts
EmptyDictText == <<"{", "}">>
KeyValueText == <<"{", "\"", "k", "\"", ":", " ", "\"", "v", "\"", "}">>
KeyValue == MetaDict(<< <<<<"k">>, MetaText(<<"v">>)>> >>)
QuotedKeyValueText ==
    <<"\"", "{", "\\", "\"", "k", "\\", "\"", ":", " ", "\\", "\"", "v", "\\", "\"", "}", "\"">>
LongNumeral == [i \in 1..(MaxStrDigits + 1) |-> "1"] \o <<>>
\* the JSON string whose characters are that numeral
QuotedLongNumeral == <<"\"">> \o LongNumeral \o <<"\"">>

\* a no-break space, a carriage return and an em space, which str.strip
\* removes; small dotless i and sharp s, whose uppercase is I and SS
NBSP == "u00a0"
CR == "u000d"
EMSP == "u2003"
DotlessInProgress == <<"u0131","n","_","p","r","o","g","r","e","s","s">>
SharpInProgress == <<"i","n","_","p","r","o","g","r","e","u00df">>

\* Argument tuples of the invocations that drive the state machine.
\* createTask: task_id, title, description, assignee, creator
CreateArgs ==
    { <<T1, <<"a">>, <<"d">>, U1, U2>>,
      <<<<" ">> \o T1, <<"a">>, <<"d">>, U1, U2>>,
      <<T2, <<" ","b","\t">>, <<"d">>, U2, U2>>,
      <<T1, <<>>, <<"d">>, U1, U2>>,
      <<<<" ">>, <<"a">>, <<"d">>, U1, U2>> }

\* updateTaskStatus: task_id, new_status, updated_by
UpdateArgs ==
    { <<T1, TASK_STATUS_CREATED, U1>>,
      <<T1, <<"i","n","_","p","r","o","g","r","e","s","s">>, U2>>,
      <<T1, <<" ">> \o TASK_STATUS_COMPLETED, U1>>,
      <<<<" ">> \o T1, TASK_STATUS_CANCELLED, <<" ">>>>,
      <<T1, CONFIRMED, U1>>,
      <<<<NBSP>> \o T1 \o <<CR>>, SharpInProgress, U1>>,
      <<T2, BOGUS, U1>>,
      <<T2, TASK_STATUS_COMPLETED, <<>>>> }

\* addDocumentVersion: task_id, document_id, version, content_hash,
\* uploaded_by and, optionally, the metadata text
AddArgs ==
    { <<T1, D1, V1, H1, U1>>,
      <<T1, <<" ">> \o D1 \o <<" ">>, V2, H2 \o <<" ">>, U2, KeyValueText>>,
      <<T1, D2, V1, H1, U1, <<"z", "z">>>>,
      <<T1, <<>>, V1, H1, U1>>,
      <<T2, D1, V2, H2, U2, QuotedKeyValueText>>,
      <<T1, D1, <<" ">>, H1, U1>>,
      <<<<>>, D1, V1, H1, U1>> }

\* getDocumentVersions: task_id, document_id
GetVersionsArgs ==
    { <<T1, D1>>, <<T1, <<" ">> \o D2>>, <<T1, <<>>>>, <<T2, D1>>, <<<<>>, D1>> }

\* getTask: task_id
GetTaskArgs == { <<T1>>, <<<<" ">> \o T1>>, <<T2>>, <<<<>>>> }

\* -------------------------------------------------------------- the state
\* ledger   the stub's state: ledger key -> stored JSON text
\* clock    the last value read from the clock
\* creates  history: task key -> number of CreateTask calls that succeeded
\* attached history: <<task_id, document_id>> -> the document versions that the
\*          successful AddDocumentVersion calls attached, in call order
\* firstSeen history: task_id -> the document_ids of the successful
\*          AddDocumentVersion calls, each once, in order of first attachment
\* derived  history: ledger key -> the identifiers it was derived from by
\*          create_task_key, create_document_key and create_composite_key
\* inflight the invocations under way: caller -> the invocation, the ledger
\*          as its read saw it and, once it has returned, its envelope
VARIABLES ledger, clock, creates, attached, firstSeen, derived, inflight

vars == <<ledger, clock, creates, attached, firstSeen, derived, inflight>>

\* the n successive clock readings of one invocation that starts when the
\* clock shows c: non-decreasing and not before c
ReadingsUpTo(c, n, top) ==
    {ts \in [1..n -> c..top] : \A i \in 1..(n - 1) : ts[i] <= ts[i + 1]}

ReadingsFrom(c, n) == ReadingsUpTo(c, n, MaxClock)

\* clock readings that all show c (used to learn how many readings a call makes)
Still(c) == [i \in 1..4 |-> c]

\* number of document versions stored in the whole ledger
RECURSIVE SumVersions(_)
SumVersions(documents) ==
    IF documents = <<>> THEN 0
    ELSE Len(VersionsOf(Head(documents))) + SumVersions(Tail(documents))

RECURSIVE TotalVersions(_, _)
TotalVersions(state, keys) ==
    IF keys = {} THEN 0
    ELSE LET k == CHOOSE x \in keys : TRUE
         IN SumVersions(DocumentsOf(json_loads(state[k])))
              + TotalVersions(state, keys \ {k})

\* history lookups: count of a key, log of a task
Count(f, k) == IF k \in DOMAIN f THEN f[k] ELSE 0
Log(f, k) == IF k \in DOMAIN f THEN f[k] ELSE <<>>

\* sum of a counter map, total length of a log map
RECURSIVE Total(_, _)
Total(f, keys) ==
    IF keys = {} THEN 0
    ELSE LET k == CHOOSE x \in keys : TRUE IN f[k] + Total(f, keys \ {k})

RECURSIVE TotalLen(_, _)
TotalLen(f, keys) ==
    IF keys = {} THEN 0
    ELSE LET k == CHOOSE x \in keys : TRUE IN Len(f[k]) + TotalLen(f, keys \ {k})

\* the invocations of the five functions with an argument list
DoCreate(state, a, ts, getFault, putFault) ==
    invoke_chaincode(state, "createTask", a, ts, getFault, putFault)
DoUpdate(state, a, ts, getFault, putFault) ==
    invoke_chaincode(state, "updateTaskStatus", a, ts, getFault, putFault)
DoAdd(state, a, ts, getFault, putFault) ==
    invoke_chaincode(state, "addDocumentVersion", a, ts, getFault, putFault)
DoGetVersions(state, a, ts, getFault) ==
    invoke_chaincode(state, "getDocumentVersions", a, ts, getFault, FALSE)
DoGetTask(state, a, ts, getFault) ==
    invoke_chaincode(state, "getTask", a, ts, getFault, FALSE)

\* s with x appended unless it is already an element
AppendNew(s, x) == IF \E i \in 1..Len(s) : s[i] = x THEN s ELSE Append(s, x)

Init ==
    /\ ledger = [k \in {} |-> None]
    /\ clock = 0
    /\ creates = [k \in {} |-> 0]
    /\ attached = [k \in {} |-> <<>>]
    /\ firstSeen = [k \in {} |-> <<>>]
    /\ derived = [k \in {} |-> {}]
    /\ inflight = [p \in {} |-> None]

\* one invocation of each handler with arguments from args, at clock
\* readings that do not pass top
CreateStep(args, top, getFault, putFault) ==
    \E a \in args :
      \E ts \in ReadingsUpTo(clock, DoCreate(ledger, a, Still(clock), getFault, putFault).reads, top) :
      \E out \in { DoCreate(ledger, a, ts, getFault, putFault) } :
        LET key == create_task_key(sanitize_string(a[1]))
        IN  /\ ledger' = out.state
            /\ clock' = ts[out.reads]
            /\ creates' = IF out.res.success
                          THEN DictSet(creates, key, Count(creates, key) + 1)
                          ELSE creates
            /\ UNCHANGED <<attached, firstSeen, derived, inflight>>

UpdateStep(args, top, getFault, putFault) ==
    \E a \in args :
      \E ts \in ReadingsUpTo(clock, DoUpdate(ledger, a, Still(clock), getFault, putFault).reads, top) :
      \E out \in { DoUpdate(ledger, a, ts, getFault, putFault) } :
        /\ ledger' = out.state
        /\ clock' = ts[out.reads]
        /\ UNCHANGED <<creates, attached, firstSeen, derived, inflight>>

AddStep(args, top, getFault, putFault) ==
    \E a \in args :
      \E ts \in ReadingsUpTo(clock, DoAdd(ledger, a, Still(clock), getFault, putFault).reads, top) :
      \E out \in { DoAdd(ledger, a, ts, getFault, putFault) } :
        LET tid == sanitize_string(a[1])
            did == sanitize_string(a[2])
        IN  /\ ledger' = out.state
            /\ clock' = ts[out.reads]
            /\ attached' = IF out.res.success
                           THEN DictSet(attached, <<tid, did>>,
                                    Append(Log(attached, <<tid, did>>),
                                           out.res.data.document_version))
                           ELSE attached
            /\ firstSeen' = IF out.res.success
                            THEN DictSet(firstSeen, tid,
                                     AppendNew(Log(firstSeen, tid), a[2]))
                            ELSE firstSeen
            /\ UNCHANGED <<creates, derived, inflight>>

GetVersionsStep(args, top, getFault) ==
    \E a \in args, ts \in ReadingsUpTo(clock, 1, top) :
      \E out \in { DoGetVersions(ledger, a, ts, getFault) } :
        /\ ledger' = out.state
        /\ clock' = ts[out.reads]
        /\ UNCHANGED <<creates, attached, firstSeen, derived, inflight>>

GetTaskStep(args, top, getFault) ==
    \E a \in args, ts \in ReadingsUpTo(clock, 1, top) :
      \E out \in { DoGetTask(ledger, a, ts, getFault) } :
        /\ ledger' = out.state
        /\ clock' = ts[out.reads]
        /\ UNCHANGED <<creates, attached, firstSeen, derived, inflight>>

CreateTask(getFault, putFault) ==
    /\ Total(creates, DOMAIN creates) < MaxCreates
    /\ CreateStep(CreateArgs, MaxClock, getFault, putFault)

UpdateTaskStatus(getFault, putFault) == UpdateStep(UpdateArgs, MaxClock, getFault, putFault)

AddDocumentVersion(getFault, putFault) ==
    /\ TotalVersions(ledger, DOMAIN ledger) < MaxVersions
    /\ TotalLen(attached, DOMAIN attached) < MaxVersions
    /\ AddStep(AddArgs, MaxClock, getFault, putFault)

GetDocumentVersions(getFault) == GetVersionsStep(GetVersionsArgs, MaxClock, getFault)

GetTask(getFault) == GetTaskStep(GetTaskArgs, MaxClock, getFault)

\* the engine over a ledger stub whose reads and writes may raise:
\* StateManager answers a read that raises with None and a write that raises
\* with False
Next ==
    \/ \E getFault, putFault \in BOOLEAN : CreateTask(getFault, putFault)
    \/ \E getFault, putFault \in BOOLEAN : UpdateTaskStatus(getFault, putFault)
    \/ \E getFault, putFault \in BOOLEAN : AddDocumentVersion(getFault, putFault)
    \/ \E getFault \in BOOLEAN : GetDocumentVersions(getFault)
    \/ \E getFault \in BOOLEAN : GetTask(getFault)

Spec == Init /\ [][Next]_vars

\* ------------------------------------------------------------ invocations
\* The properties below quantify, in every reachable state, over the
\* invocations of these argument sets and over every clock reading.
T3 == <<"T","3">>

ProbeTaskIds == { T1, <<" ">> \o T1, <<NBSP>> \o T1 \o <<CR>>, T2, T3, <<>>, <<" ">>, <<EMSP>> }

ProbeFields ==
    { <<<<"a">>, <<"d">>, U1, U2>>,
      <<<<"c"," ">>, <<" ","e">>, U2, U1>>,
      <<<<>>, <<"d">>, U1, U2>>,
      <<<<"a">>, <<" ">>, U1, U2>>,
      <<<<"a">>, <<"d">>, <<>>, U2>>,
      <<<<"a">>, <<"d">>, U1, <<"\n">>>>,
      <<<<NBSP, CR>>, <<"d">>, U1, U2>>,
      <<<<EMSP, "a", NBSP>>, <<"d">>, U1, U2>> }

ProbeCreate == { <<id, f[1], f[2], f[3], f[4]>> : id \in ProbeTaskIds, f \in ProbeFields }

\* the outcomes of an invocation in the current state, one per clock reading
CreateOutcomes(a) ==
    { DoCreate(ledger, a, ts, FALSE, FALSE) :
        ts \in ReadingsFrom(clock, DoCreate(ledger, a, Still(clock), FALSE, FALSE).reads) }

\* the ledger holds a record under TASK_<task_id>
HasRecord(state, task_id) == create_task_key(task_id) \in DOMAIN state

\* the task stored under TASK_<task_id>
StoredTask(state, task_id) == json_loads(state[create_task_key(task_id)])

\* the arguments of a createTask invocation pass validate_task_data
ValidCreate(a) ==
    validate_task_data([task_id |-> a[1], title |-> a[2], description |-> a[3],
                        assignee |-> a[4], creator |-> a[5]]) = "ok"

\* ------------------------------------------------------------------ C1
\* the outcomes of a createTask invocation in the current state, its ledger
\* read raising or not
CreateOutcomesUnder(a, getFault) ==
    { DoCreate(ledger, a, ts, getFault, FALSE) :
        ts \in ReadingsFrom(clock, DoCreate(ledger, a, Still(clock), getFault, FALSE).reads) }

\* C1 (as claimed): when TASK_<taskId> already holds a task record,
\* CreateTask returns the duplicate-task failure and the ledger, the stored
\* record included, is exactly what it was; at most one CreateTask per task
\* key ever succeeds.
C1_DuplicateCreateRejected ==
    /\ \A a \in ProbeCreate : \A getFault \in BOOLEAN :
       \A out \in CreateOutcomesUnder(a, getFault) :
          HasRecord(ledger, sanitize_string(a[1])) =>
             /\ ~out.res.success
             /\ out.res.error = "task_exists"
             /\ out.state = ledger
    /\ \A k \in DOMAIN creates : creates[k] <= 1

\* ------------------------------------------------------------------ C2
\* C2: every successful CreateTask stores (and returns) a task whose status
\* is CREATED and whose documents sequence is empty, whatever the arguments.
C2_CreatedTaskIsFresh ==
    \A a \in ProbeCreate : \A out \in CreateOutcomes(a) :
        out.res.success =>
           /\ HasRecord(out.state, sanitize_string(a[1]))
           /\ StoredTask(out.state, sanitize_string(a[1])).status = TASK_STATUS_CREATED
           /\ StoredTask(out.state, sanitize_string(a[1])).documents = <<>>
           /\ out.res.data.task = StoredTask(out.state, sanitize_string(a[1]))

\* a CreateTask succeeds while another task, already updated and holding a
\* document, is stored
C2_Witness ==
    /\ \E a \in ProbeCreate : \E out \in CreateOutcomes(a) : out.res.success
    /\ \E k \in DOMAIN ledger :
          /\ json_loads(ledger[k]).status # TASK_STATUS_CREATED
          /\ json_loads(ledger[k]).documents # <<>>
    /\ \E k \in DOMAIN creates : creates[k] = 1

\* ------------------------------------------------------- more invocations
\* the five statuses of the specification's data model
SpecStatuses == VALID_TASK_STATUSES \cup {CONFIRMED}

ProbeStatuses ==
    { TASK_STATUS_CREATED, <<"c","r","e","a","t","e","d">>,
      TASK_STATUS_IN_PROGRESS, <<"I","n","_","P","r","o","g","r","e","s","s">>,
      TASK_STATUS_COMPLETED, <<" ","c","o","m","p","l","e","t","e","d"," ">>,
      TASK_STATUS_CANCELLED, CONFIRMED, <<"c","o","n","f","i","r","m","e","d">>,
      DotlessInProgress, SharpInProgress, <<NBSP>> \o TASK_STATUS_CANCELLED \o <<CR>>,
      BOGUS, <<>>, <<" ">>, <<EMSP>> }

ProbeUpdate ==
    { <<T1, st, U1>> : st \in ProbeStatuses }
    \cup { <<id, st, U1>> : id \in {T2, T3},
                            st \in {TASK_STATUS_COMPLETED, CONFIRMED, BOGUS, <<>>} }
    \cup { <<T1, st, by>> : st \in {TASK_STATUS_CREATED, BOGUS},
                            by \in {U2, <<>>, <<" ">>, <<" ">> \o U1 \o <<" ">>} }
    \cup { <<id, st, U1>> : id \in {<<" ">> \o T1, <<NBSP>> \o T1 \o <<CR>>, <<>>, <<" ">>},
                            st \in {TASK_STATUS_IN_PROGRESS, DotlessInProgress, BOGUS} }

\* version, content_hash, uploaded_by and, optionally, the metadata text
ProbeVersions ==
    { <<V1, H1, U1>>,
      <<<<" ">> \o V2, H2 \o <<" ">>, <<" ">> \o U2, KeyValueText>> }

BadVersions ==
    { <<<<>>, H1, U1>>, <<V1, <<" ">>, U1>>, <<V1, H1, <<>>>> }

\* version, content_hash, uploaded_by and a metadata text that json.loads
\* cannot decode: a numeral too long to convert, bare and as the characters
\* of a JSON string, and a text that is not JSON
UndecodableVersions ==
    { <<V1, H1, U1, LongNumeral>>, <<V1, H1, U1, QuotedLongNumeral>>,
      <<<<>>, H1, U1, LongNumeral>>, <<V1, <<" ">>, U1, QuotedLongNumeral>>,
      <<V1, H1, U1, <<"z", "z">>>> }

ProbeAdd ==
    { <<id, d>> \o v :
        id \in {T1, T2}, d \in {D1, <<" ">> \o D1 \o <<" ">>, D2, <<>>}, v \in ProbeVersions }
    \cup { <<T1, D1>> \o v : v \in BadVersions }
    \cup { <<id, D1>> \o v :
             id \in {T3, <<>>, <<" ">> \o T1},
             v \in {<<V1, H1, U1>>, <<<<>>, H1, U1>>} }
    \cup { <<id, D1>> \o v : id \in {T1, T2}, v \in UndecodableVersions }

ProbeGetVersions ==
    { <<id, d>> : id \in {T1, T2, T3, <<" ">> \o T1, <<>>},
                  d \in {D1, D2, <<" ">> \o D1 \o <<" ">>, <<>>, <<" ">>} }

ProbeGetTask == { <<id>> : id \in ProbeTaskIds }

UpdateOutcomes(a) ==
    { DoUpdate(ledger, a, ts, FALSE, FALSE) :
        ts \in ReadingsFrom(clock, DoUpdate(ledger, a, Still(clock), FALSE, FALSE).reads) }

AddOutcomes(a) ==
    { DoAdd(ledger, a, ts, FALSE, FALSE) :
        ts \in ReadingsFrom(clock, DoAdd(ledger, a, Still(clock), FALSE, FALSE).reads) }

GetVersionsOutcomes(a) ==
    { DoGetVersions(ledger, a, ts, FALSE) : ts \in ReadingsFrom(clock, 1) }

GetTaskOutcomes(a) ==
    { DoGetTask(ledger, a, ts, FALSE) : ts \in ReadingsFrom(clock, 1) }

\* the arguments of an updateTaskStatus invocation pass the handler's checks:
\* none is empty and the normalised status is one the engine accepts
ValidUpdate(a) ==
    /\ ~Falsy(a[1]) /\ ~Falsy(a[2]) /\ ~Falsy(a[3])
    /\ upper(sanitize_string(a[2])) \in VALID_TASK_STATUSES

\* the arguments of an addDocumentVersion invocation pass its validation
ValidAdd(a) ==
    validate_document_version_data([version |-> a[3], content_hash |-> a[4],
                                    uploaded_by |-> a[5]]) = "ok"

\* the task that GetTask(task_id) shows in a ledger state (None on failure)
Shown(state, task_id) ==
    LET res == DoGetTask(state, <<task_id>>, Still(clock), FALSE).res
    IN  IF res.success THEN res.data.task ELSE None

\* ------------------------------------------------------------------ C3
\* C3 (as claimed): on an existing task, UpdateTaskStatus succeeds for each
\* of CREATED, IN_PROGRESS, COMPLETED, CANCELLED and CONFIRMED in any letter
\* case, storing the uppercase value, and fails with the invalid-status error
\* for every other value.  Restricted to non-empty arguments without
\* surrounding whitespace.
C3_FiveStatusesAccepted ==
    \A a \in ProbeUpdate : \A out \in UpdateOutcomes(a) :
        ( /\ HasRecord(ledger, a[1])
          /\ a[2] # <<>> /\ strip(a[2]) = a[2]
          /\ a[3] # <<>> /\ strip(a[3]) = a[3] ) =>
            IF upper(a[2]) \in SpecStatuses
            THEN /\ out.res.success
                 /\ StoredTask(out.state, a[1]).status = upper(a[2])
            ELSE /\ ~out.res.success
                 /\ out.res.error = "invalid_status"

\* ------------------------------------------------------------------ C4
\* C4: on an existing task, whether UpdateTaskStatus succeeds is decided by
\* its arguments alone, never by the task's current status; when it succeeds
\* the new status is stored whatever the old one was (self-loops and returns
\* to CREATED included).
C4_NoTransitionRestriction ==
    \A a \in ProbeUpdate : \A out \in UpdateOutcomes(a) :
        HasRecord(ledger, sanitize_string(a[1])) =>
           /\ out.res.success <=> ValidUpdate(a)
           /\ out.res.success =>
                 StoredTask(out.state, sanitize_string(a[1])).status
                    = upper(sanitize_string(a[2]))

\* a COMPLETED task is returned to CREATED, a CANCELLED one is cancelled again
C4_Witness ==
    /\ HasRecord(ledger, T1)
    /\ StoredTask(ledger, T1).status = TASK_STATUS_COMPLETED
    /\ \E out \in UpdateOutcomes(<<T1, TASK_STATUS_CREATED, U1>>) :
          /\ out.res.success
          /\ out.res.data.old_status = TASK_STATUS_COMPLETED
          /\ StoredTask(out.state, T1).status = TASK_STATUS_CREATED
    /\ \E out \in UpdateOutcomes(<<T1, TASK_STATUS_COMPLETED, U1>>) :
          /\ out.res.success
          /\ StoredTask(out.state, T1).status = TASK_STATUS_COMPLETED

\* ------------------------------------------------------------------ C5
\* C5 (as claimed): after a successful UpdateTaskStatus(taskId, s, u), GetTask
\* shows status = uppercase of s and updatedBy = u; the result's old_status is
\* the status stored before the call and new_status the status stored now.
C5_RoundTripVerbatim ==
    \A a \in ProbeUpdate : \A out \in UpdateOutcomes(a) :
        out.res.success =>
           /\ Shown(out.state, a[1]) # None
           /\ Shown(out.state, a[1]).status = upper(a[2])
           /\ "updated_by" \in DOMAIN Shown(out.state, a[1])
           /\ Shown(out.state, a[1]).updated_by = a[3]
           /\ out.res.data.old_status = Shown(ledger, a[1]).status
           /\ out.res.data.new_status = Shown(out.state, a[1]).status

\* C5 (amended): the same with s and u stripped of surrounding whitespace:
\* status = uppercase of the stripped s, updatedBy = the stripped u.
C5_RoundTripStripped ==
    \A a \in ProbeUpdate : \A out \in UpdateOutcomes(a) :
        out.res.success =>
           /\ Shown(out.state, a[1]) # None
           /\ Shown(out.state, a[1]).status = upper(strip(a[2]))
           /\ "updated_by" \in DOMAIN Shown(out.state, a[1])
           /\ Shown(out.state, a[1]).updated_by = strip(a[3])
           /\ out.res.data.old_status = Shown(ledger, a[1]).status
           /\ out.res.data.new_status = Shown(out.state, a[1]).status

\* an update by another user, with padded arguments, of a task whose status
\* was already changed from CREATED
C5_Witness ==
    /\ HasRecord(ledger, T1)
    /\ StoredTask(ledger, T1).status = TASK_STATUS_IN_PROGRESS
    /\ "updated_by" \in DOMAIN StoredTask(ledger, T1)
    /\ StoredTask(ledger, T1).updated_by = U2
    /\ \E out \in UpdateOutcomes(<<T1, TASK_STATUS_CREATED, <<" ">> \o U1 \o <<" ">>>>) :
          /\ out.res.success
          /\ out.res.data.old_status = TASK_STATUS_IN_PROGRESS
          /\ StoredTask(out.state, T1).updated_by = U1

\* ------------------------------------------------------------------ C6
\* C6: UpdateTaskStatus with a status that is none of the five (in any case,
\* stripped) on an existing task returns a validation failure and leaves the
\* whole ledger, the task's record included, as it was.
C6_InvalidStatusRejected ==
    \A a \in ProbeUpdate : \A out \in UpdateOutcomes(a) :
        ( /\ HasRecord(ledger, sanitize_string(a[1]))
          /\ upper(strip(a[2])) \notin SpecStatuses ) =>
            /\ ~out.res.success
            /\ out.res.error \in {"invalid_status", "params_required"}
            /\ out.state = ledger

\* BOGUS is refused on a task that has been updated and holds a document
C6_Witness ==
    /\ HasRecord(ledger, T1)
    /\ StoredTask(ledger, T1).status = TASK_STATUS_CANCELLED
    /\ StoredTask(ledger, T1).documents # <<>>
    /\ \E out \in UpdateOutcomes(<<T1, BOGUS, U1>>) :
          ~out.res.success /\ out.res.error = "invalid_status" /\ out.state = ledger

\* ------------------------------------------------------------------ C7
\* C7 (as claimed): UpdateTaskStatus, AddDocumentVersion, GetDocumentVersions
\* and GetTask on a taskId without a record return the task-not-found failure
\* whatever the other arguments are, and create no record.
NotFoundOutcome(out) ==
    ~out.res.success /\ out.res.error = "task_not_found" /\ out.state = ledger

C7_AlwaysNotFound ==
    /\ \A a \in ProbeUpdate : \A out \in UpdateOutcomes(a) :
          ~HasRecord(ledger, sanitize_string(a[1])) => NotFoundOutcome(out)
    /\ \A a \in ProbeAdd : \A out \in AddOutcomes(a) :
          ~HasRecord(ledger, sanitize_string(a[1])) => NotFoundOutcome(out)
    /\ \A a \in ProbeGetVersions : \A out \in GetVersionsOutcomes(a) :
          ~HasRecord(ledger, sanitize_string(a[1])) => NotFoundOutcome(out)
    /\ \A a \in ProbeGetTask : \A out \in GetTaskOutcomes(a) :
          ~HasRecord(ledger, sanitize_string(a[1])) => NotFoundOutcome(out)

\* C7 (amended): on a taskId without a record each of the four operations
\* returns a failure, its ledger read raising or not, and leaves the ledger
\* as it was.  The failure is task-not-found when the arguments pass the
\* operation's own argument checks and the metadata text, if there is one,
\* is decoded without an exception; it is the failure of those checks or
\* the decoder's exception otherwise.  The decoder raises ValueError on an
\* integer numeral of more than MaxStrDigits digits and on a float numeral
\* of more than MaxDigits digits, and RecursionError on a nesting deeper
\* than NestingLimit: in the dispatcher, before the arguments are checked,
\* and, for a JSON string holding such a text, in the handler, after they
\* are checked and before the task is looked up.
ValidationErrors ==
    { "params_required", "invalid_status", "task_id_required",
      "field_empty:version", "field_empty:content_hash", "field_empty:uploaded_by" }

\* the failure expected of an operation on a task without a record: the
\* exception of the dispatcher's decoding, else the failure of the argument
\* checks, else the exception of the handler's decoding, else task-not-found
MissingOutcome(out, dispatcherException, valid, handlerException) ==
    /\ ~out.res.success
    /\ out.state = ledger
    /\ out.puts = 0
    /\ IF dispatcherException # ""
       THEN out.res.error = dispatcherException /\ out.engine = <<>>
       ELSE IF ~valid THEN out.res.error \in ValidationErrors
       ELSE IF handlerException # ""
       THEN out.res.error = handlerException /\ out.gets = 0
       ELSE out.res.error = "task_not_found"

\* the addDocumentVersion invocation carries a metadata text
HasMetadataText(a) == Len(a) > 5

\* the name of the exception a decoding raised, "" when it raised none
ExceptionOf(value) == IF Raised(value) THEN value.type ELSE ""

\* the exception json.loads raises on the metadata text of the invocation
\* where the dispatcher decodes it
DispatcherException(a) ==
    IF ~HasMetadataText(a) THEN ""
    ELSE CHOOSE e \in { ExceptionOf(value) : value \in { parse_metadata(a[6], 0) } } : TRUE

\* the exception json.loads raises where the handler decodes the str the
\* dispatcher's decoding gave
HandlerException(a) ==
    IF ~HasMetadataText(a) THEN ""
    ELSE CHOOSE e \in { ExceptionOf(NormalizeMetadata(value)) :
                          value \in { parse_metadata(a[6], 0) } } : TRUE

AddOutcomesUnder(a, getFault) ==
    { DoAdd(ledger, a, ts, getFault, FALSE) :
        ts \in ReadingsFrom(clock, DoAdd(ledger, a, Still(clock), getFault, FALSE).reads) }

UpdateOutcomesUnder(a, getFault) ==
    { DoUpdate(ledger, a, ts, getFault, FALSE) :
        ts \in ReadingsFrom(clock, DoUpdate(ledger, a, Still(clock), getFault, FALSE).reads) }

C7_MissingTaskFails ==
    \A getFault \in BOOLEAN :
       /\ \A a \in ProbeUpdate : \A out \in UpdateOutcomesUnder(a, getFault) :
             ~HasRecord(ledger, sanitize_string(a[1])) =>
                 MissingOutcome(out, "", ValidUpdate(a), "")
       /\ \A a \in ProbeAdd : \A out \in AddOutcomesUnder(a, getFault) :
             ~HasRecord(ledger, sanitize_string(a[1])) =>
                 MissingOutcome(out, DispatcherException(a), ValidAdd(a),
                                HandlerException(a))
       /\ \A a \in ProbeGetVersions : \A ts \in ReadingsFrom(clock, 1) :
          \A out \in { DoGetVersions(ledger, a, ts, getFault) } :
             ~HasRecord(ledger, sanitize_string(a[1])) =>
                 MissingOutcome(out, "", ~Falsy(a[1]) /\ ~Falsy(a[2]), "")
       /\ \A a \in ProbeGetTask : \A ts \in ReadingsFrom(clock, 1) :
          \A out \in { DoGetTask(ledger, a, ts, getFault) } :
             ~HasRecord(ledger, sanitize_string(a[1])) =>
                 MissingOutcome(out, "", ~Falsy(a[1]), "")

\* T1 is stored with a document while T2 and T3 are not: the four operations
\* on T2 report task-not-found, and an addDocumentVersion on T2 whose
\* metadata is a numeral too long to convert fails with the decoder's
\* exception, raised in the dispatcher and, for the quoted numeral, in the
\* handler
C7_Witness ==
    /\ HasRecord(ledger, T1) /\ StoredTask(ledger, T1).documents # <<>>
    /\ ~HasRecord(ledger, T2)
    /\ \E out \in UpdateOutcomes(<<T2, TASK_STATUS_COMPLETED, U1>>) : NotFoundOutcome(out)
    /\ \E out \in AddOutcomes(<<T2, D1, V1, H1, U1>>) : NotFoundOutcome(out)
    /\ \E out \in GetVersionsOutcomes(<<T2, D1>>) : NotFoundOutcome(out)
    /\ \E out \in GetTaskOutcomes(<<T2>>) : NotFoundOutcome(out)
    /\ \E out \in AddOutcomes(<<T2, D1, V1, H1, U1, LongNumeral>>) :
          /\ ~out.res.success /\ out.res.error = "ValueError"
          /\ out.engine = <<>> /\ out.state = ledger
    /\ \E out \in AddOutcomes(<<T2, D1, V1, H1, U1, QuotedLongNumeral>>) :
          /\ ~out.res.success /\ out.res.error = "ValueError"
          /\ out.engine = <<"add_document_version">> /\ out.gets = 0
          /\ out.state = ledger

\* ------------------------------------------------------------------ C8
\* C8 (as claimed): GetDocumentVersions(taskId, documentId) returns exactly
\* the versions attached by the successful AddDocumentVersion calls for that
\* task and document (identifiers taken without surrounding whitespace), in
\* the order of the calls, with total_versions their number; it fails only
\* when nothing was attached.
C8_ReturnsAttachedVersions ==
    \A a \in ProbeGetVersions : \A out \in GetVersionsOutcomes(a) :
        LET calls == Log(attached, <<sanitize_string(a[1]), sanitize_string(a[2])>>)
        IN  IF calls # <<>>
            THEN /\ out.res.success
                 /\ out.res.data.versions = calls
                 /\ out.res.data.total_versions = Len(calls)
            ELSE ~out.res.success

\* ------------------------------------------------------------------ C9
\* the documents stored under a ledger key
DocumentsAt(state, key) == DocumentsOf(json_loads(state[key]))

\* s is a prefix of t
IsPrefix(s, t) == Len(s) <= Len(t) /\ \A i \in 1..Len(s) : s[i] = t[i]

\* C9 (as claimed): across every operation each stored document keeps its place and its
\* documentId, and its versions before the operation are a prefix of its
\* versions after it.
C9_Step ==
    \A key \in DOMAIN ledger :
       /\ key \in DOMAIN ledger'
       /\ Len(DocumentsAt(ledger, key)) <= Len(DocumentsAt(ledger', key))
       /\ \A i \in 1..Len(DocumentsAt(ledger, key)) :
             /\ DocumentsAt(ledger', key)[i].document_id
                   = DocumentsAt(ledger, key)[i].document_id
             /\ IsPrefix(VersionsOf(DocumentsAt(ledger, key)[i]),
                         VersionsOf(DocumentsAt(ledger', key)[i]))

C9_VersionsAppendOnly == [][C9_Step]_vars

\* ----------------------------------------------------------------- C10
\* the documentIds of a documents sequence, in order
DocumentIds(documents) == [i \in 1..Len(documents) |-> documents[i].document_id]

\* the elements of a sequence
Range(s) == {s[i] : i \in 1..Len(s)}

StoredIds == {json_loads(ledger[key]).task_id : key \in DOMAIN ledger}

\* C10 (as claimed): every task's documents hold exactly one Document per
\* distinct documentId ever attached, in first-attachment order, none with an
\* empty versions sequence; AddDocumentVersion for an unseen documentId
\* appends one Document holding exactly that version, and for a known one
\* leaves the number and order of documents unchanged.
C10_OneDocumentPerId ==
    /\ \A id \in StoredIds :
          /\ DocumentIds(StoredTask(ledger, id).documents) = Log(firstSeen, id)
          /\ \A i \in 1..Len(StoredTask(ledger, id).documents) :
                VersionsOf(StoredTask(ledger, id).documents[i]) # <<>>
    /\ \A a \in ProbeAdd : \A out \in AddOutcomes(a) :
          out.res.success =>
             LET before == StoredTask(ledger, sanitize_string(a[1])).documents
                 after == StoredTask(out.state, sanitize_string(a[1])).documents
             IN  IF a[2] \notin Range(Log(firstSeen, sanitize_string(a[1])))
                 THEN /\ Len(after) = Len(before) + 1
                      /\ SubSeq(after, 1, Len(before)) = before
                      /\ VersionsOf(after[Len(after)]) = <<out.res.data.document_version>>
                 ELSE DocumentIds(after) = DocumentIds(before)

\* ----------------------------------------------------------------- C11
\* an envelope without its timestamp
Payload(res) == [k \in (DOMAIN res) \ {"timestamp"} |-> res[k]]

\* C11: GetTask and GetDocumentVersions leave the ledger as it was, and a
\* second call with the same arguments, made right after the first at any
\* later clock reading, returns the same envelope apart from the timestamp.
C11_ReadsAreReadOnly ==
    /\ \A a \in ProbeGetTask : \A first \in GetTaskOutcomes(a) :
          /\ first.state = ledger
          /\ \A ts \in ReadingsFrom(first.res.timestamp, 1) :
                Payload(DoGetTask(first.state, a, ts, FALSE).res) = Payload(first.res)
    /\ \A a \in ProbeGetVersions : \A first \in GetVersionsOutcomes(a) :
          /\ first.state = ledger
          /\ \A ts \in ReadingsFrom(first.res.timestamp, 1) :
                Payload(DoGetVersions(first.state, a, ts, FALSE).res) = Payload(first.res)

\* both reads succeed on a task that was updated and holds a document
C11_Witness ==
    /\ HasRecord(ledger, T1)
    /\ StoredTask(ledger, T1).status # TASK_STATUS_CREATED
    /\ \E out \in GetTaskOutcomes(<<T1>>) :
          out.res.success /\ out.res.data.task.documents # <<>>
    /\ \E out \in GetVersionsOutcomes(<<T1, D1>>) :
          out.res.success /\ out.res.data.total_versions >= 1

\* ----------------------------------------------------------------- C14
Functions ==
    {"createTask", "updateTaskStatus", "addDocumentVersion", "getDocumentVersions", "getTask"}

\* the argument counts the specification gives for each function
ExpectedCounts(function) ==
    CASE function = "createTask" -> {5}
      [] function = "updateTaskStatus" -> {3}
      [] function = "addDocumentVersion" -> {5, 6}
      [] function = "getDocumentVersions" -> {2}
      [] function = "getTask" -> {1}

\* argument lists of every length from none to seven
ArgPool == <<T1, D1, V1, H1, U1, EmptyDictText, EmptyDictText>>

ProbeArgLists == { SubSeq(ArgPool, 1, n) : n \in 0..Len(ArgPool) }

InvokeOutcomes(function, args, getFault, putFault) ==
    { invoke_chaincode(ledger, function, args, ts, getFault, putFault) :
        ts \in ReadingsFrom(clock,
                 invoke_chaincode(ledger, function, args, Still(clock),
                                  getFault, putFault).reads) }

\* C14 (as claimed): an invocation whose argument count differs from the
\* function's expected count returns an error envelope, invokes no handler,
\* makes no ledger read or write and leaves the ledger as it was.
C14_ArityMismatchRefused ==
    \A function \in Functions : \A args \in ProbeArgLists :
        Len(args) \notin ExpectedCounts(function) =>
            \A out \in InvokeOutcomes(function, args, FALSE, FALSE) :
                /\ ~out.res.success
                /\ out.engine = <<>>
                /\ out.gets = 0 /\ out.puts = 0
                /\ out.state = ledger

\* ---------------------------------------- the engine behind its dispatcher
\* invocations as a peer delivers them: function name and argument list
DispatchCalls ==
    { <<"createTask", <<T1, <<"a">>, <<"d">>, U1, U2>>>>,
      <<"createTask", <<T1, <<"a">>, <<"d">>, U1>>>>,
      <<"createTask", <<T2, <<"b">>, <<"e">>, U2, U1>>>>,
      <<"updateTaskStatus", <<T1, TASK_STATUS_IN_PROGRESS, U1>>>>,
      <<"updateTaskStatus", <<T2, TASK_STATUS_CANCELLED, U2>>>>,
      <<"updateTaskStatus", <<T1, BOGUS, U2>>>>,
      <<"updateTaskStatus", <<T1, <<"c","o","m","p","l","e","t","e","d">>, U2>>>>,
      <<"updateTaskStatus", <<<<NBSP>> \o T1, DotlessInProgress, U1>>>>,
      <<"addDocumentVersion", <<T1, D1, V1, H1, U1>>>>,
      <<"addDocumentVersion", <<T1, D2, V2, H2, U2, <<"5">>>>>>,
      <<"addDocumentVersion", <<T1, D1, V2, H2, U2, KeyValueText, EmptyDictText>>>>,
      <<"addDocumentVersion", <<T1, D1, V1, H1, U1, LongNumeral>>>>,
      <<"addDocumentVersion", <<T1, D1, V1, H1, U1, QuotedLongNumeral>>>>,
      <<"getDocumentVersions", <<T1, D1>>>>,
      <<"getTask", <<T1>>>>,
      <<"deleteTask", <<T1>>>> }

\* the number of document versions a ledger holds
LedgerVersions(state) ==
    Total([k \in DOMAIN state |->
              LET docs == json_loads(state[k]).documents
              IN  TotalLen([i \in 1..Len(docs) |-> docs[i].versions], 1..Len(docs))],
          DOMAIN state)

\* one invocation through invoke_chaincode under the given faults
Invoke(getFault, putFault) ==
    \E call \in DispatchCalls :
      /\ call[1] = "createTask" => Total(creates, DOMAIN creates) < MaxCreates
      /\ call[1] = "addDocumentVersion" =>
            /\ TotalLen(attached, DOMAIN attached) < MaxVersions
            /\ LedgerVersions(ledger) < MaxVersions
      /\ \E ts \in ReadingsFrom(clock,
                     invoke_chaincode(ledger, call[1], call[2], Still(clock),
                                      getFault, putFault).reads) :
         \E out \in { invoke_chaincode(ledger, call[1], call[2], ts, getFault, putFault) } :
           LET tid == sanitize_string(call[2][1])
               created == out.engine = <<"create_task">> /\ out.res.success
               added == out.engine = <<"add_document_version">> /\ out.res.success
           IN  /\ ledger' = out.state
               /\ clock' = IF out.reads = 0 THEN clock ELSE ts[out.reads]
               /\ creates' = IF created
                             THEN DictSet(creates, create_task_key(tid),
                                          Count(creates, create_task_key(tid)) + 1)
                             ELSE creates
               /\ attached' = IF added
                              THEN DictSet(attached, <<tid, sanitize_string(call[2][2])>>,
                                       Append(Log(attached, <<tid, sanitize_string(call[2][2])>>),
                                              out.res.data.document_version))
                              ELSE attached
               /\ firstSeen' = IF added
                               THEN DictSet(firstSeen, tid,
                                        AppendNew(Log(firstSeen, tid), call[2][2]))
                               ELSE firstSeen
               /\ UNCHANGED <<derived, inflight>>

InvokeHealthy == Invoke(FALSE, FALSE)

InvokeReadFault == Invoke(TRUE, FALSE)

InvokeWriteFault == \E getFault \in BOOLEAN : Invoke(getFault, TRUE)

DispatchNext ==
    \/ InvokeHealthy
    \/ InvokeReadFault
    \/ InvokeWriteFault

\* the engine behind invoke_chaincode over a ledger whose reads and writes
\* may raise
DispatchSpec == Init /\ [][DispatchNext]_vars

\* ----------------------------------------------------------------- C15
ProbeCalls ==
    DispatchCalls
    \cup { <<function, args>> : function \in Functions \cup {"deleteTask", ""},
                                args \in ProbeArgLists }

\* the faults of the ledger: of its read, of its write
FaultCases == BOOLEAN \X BOOLEAN

\* C15: for every function name, every argument list and every fault raised
\* by the engine or the ledger, invoke_chaincode returns an envelope with a
\* boolean success and a timestamp; a failure carries a non-empty error and
\* no data, a success carries no error; an unknown function name fails
\* without any ledger read or write.  The engine raises where it decodes a
\* metadata text (in the dispatcher and again in the handler); the ledger
\* raises in its read and in its write.
C15_EnvelopeAlways ==
    \A call \in ProbeCalls : \A fc \in FaultCases :
       \A out \in InvokeOutcomes(call[1], call[2], fc[1], fc[2]) :
          /\ {"success", "timestamp"} \subseteq DOMAIN out.res
          /\ out.res.success \in BOOLEAN
          /\ ~out.res.success =>
                /\ "error" \in DOMAIN out.res
                /\ out.res.error # ""
                /\ "data" \notin DOMAIN out.res
          /\ out.res.success => "error" \notin DOMAIN out.res
          /\ call[1] \notin Functions =>
                /\ ~out.res.success
                /\ out.gets = 0 /\ out.puts = 0 /\ out.engine = <<>>
                /\ out.state = ledger

\* on a stored task: a read succeeds; a numeral too long to convert raises in
\* the dispatcher, the same numeral inside a JSON string raises in the
\* handler, a read fault and a write fault are raised by the ledger, and
\* each gives a failure; an unknown function is refused
C15_Witness ==
    /\ HasRecord(ledger, T1)
    /\ StoredTask(ledger, T1).documents # <<>>
    /\ \E out \in InvokeOutcomes("addDocumentVersion", <<T1, D1, V1, H1, U1, LongNumeral>>,
                                 FALSE, FALSE) :
          ~out.res.success /\ out.res.error = "ValueError" /\ out.engine = <<>>
    /\ \E out \in InvokeOutcomes("addDocumentVersion",
                                 <<T1, D1, V1, H1, U1, QuotedLongNumeral>>, FALSE, FALSE) :
          /\ ~out.res.success /\ out.res.error = "ValueError"
          /\ out.engine = <<"add_document_version">> /\ out.state = ledger
    /\ \E out \in InvokeOutcomes("getTask", <<T1>>, FALSE, FALSE) :
          out.res.success /\ "data" \in DOMAIN out.res
    /\ \E out \in InvokeOutcomes("getTask", <<T1>>, TRUE, FALSE) :
          ~out.res.success /\ out.res.error = "task_not_found"
    /\ \E out \in InvokeOutcomes("updateTaskStatus", <<T1, TASK_STATUS_COMPLETED, U1>>,
                                 FALSE, TRUE) :
          ~out.res.success /\ out.res.error = "put_failed"
    /\ \E out \in InvokeOutcomes("deleteTask", <<T1>>, FALSE, FALSE) :
          ~out.res.success /\ out.res.error = "unknown_function"

\* ----------------------------------------------------------------- C20
\* the invocations that write the ledger
MutatingCalls ==
    { call \in DispatchCalls :
        call[1] \in {"createTask", "updateTaskStatus", "addDocumentVersion"} }
    \cup { <<"createTask", <<T2, <<"a">>, <<"d">>, U1, U2>>>>,
           <<"updateTaskStatus", <<T1, TASK_STATUS_COMPLETED, U1>>>>,
           <<"updateTaskStatus", <<T2, TASK_STATUS_COMPLETED, U1>>>> }

\* C20: when the ledger fails the put of createTask, updateTaskStatus or
\* addDocumentVersion, the invocation returns a failure envelope after exactly
\* one put attempt and the ledger, the record under the task key included,
\* is what it was before the invocation.
C20_PutFailurePropagates ==
    \A call \in MutatingCalls : \A getFault \in BOOLEAN :
       \A out \in InvokeOutcomes(call[1], call[2], getFault, TRUE) :
          out.puts # 0 =>
             /\ out.puts = 1
             /\ ~out.res.success
             /\ out.res.error = "put_failed"
             /\ "data" \notin DOMAIN out.res
             /\ out.state = ledger
             /\ stub_get_state(out.state, create_task_key(sanitize_string(call[2][1])))
                   = stub_get_state(ledger, create_task_key(sanitize_string(call[2][1])))

\* on a stored task holding a document, the failed put of an update, of an
\* addition and of the creation of another task
C20_Witness ==
    /\ HasRecord(ledger, T1)
    /\ StoredTask(ledger, T1).documents # <<>>
    /\ \E out \in InvokeOutcomes("updateTaskStatus", <<T1, TASK_STATUS_COMPLETED, U1>>,
                                 FALSE, TRUE) :
          out.puts = 1 /\ ~out.res.success /\ out.state = ledger
    /\ \E out \in InvokeOutcomes("addDocumentVersion", <<T1, D1, V1, H1, U1>>,
                                 FALSE, TRUE) :
          out.puts = 1 /\ ~out.res.success /\ out.state = ledger
    /\ \E out \in InvokeOutcomes("createTask", <<T2, <<"a">>, <<"d">>, U1, U2>>,
                                 FALSE, TRUE) :
          out.puts = 1 /\ ~out.res.success /\ ~HasRecord(out.state, T2)

\* ----------------------------------------------------------------- C19
\* empty and whitespace-only values
Blanks == { <<>>, <<" ">>, <<"\t", " ">>, <<NBSP>>, <<CR, EMSP>> }

\* s with the element at position i replaced by v
Replace(s, i, v) == [s EXCEPT ![i] = v]

\* createTask with one of its five fields blank
BlankCreates ==
    { Replace(<<id, <<"a">>, <<"d">>, U1, U2>>, i, b) :
        id \in {T1, T2}, i \in 1..5, b \in Blanks }

\* addDocumentVersion with version, content_hash or uploaded_by blank, with
\* and without the metadata argument
BlankAdds ==
    { Replace(base, i, b) :
        base \in { <<T1, D1, V1, H1, U1>>, <<T2, D1, V1, H1, U1>>,
                   <<T1, D2, V2, H2, U2, KeyValueText>> },
        i \in 3..5, b \in Blanks }

\* updateTaskStatus with an empty argument or a status that is none of the
\* specification's five, whatever its case and padding
BadUpdates ==
    { Replace(<<id, TASK_STATUS_COMPLETED, U1>>, i, <<>>) : id \in {T1, T2}, i \in 1..3 }
    \cup { <<id, st, U1>> : id \in {T1, T2},
             st \in { x \in ProbeStatuses \cup Blanks :
                        upper(strip(x)) \notin SpecStatuses } }

InvalidCalls ==
    { <<"createTask", a>> : a \in BlankCreates }
    \cup { <<"addDocumentVersion", a>> : a \in BlankAdds }
    \cup { <<"updateTaskStatus", a>> : a \in BadUpdates }

\* C19: createTask with a blank field, addDocumentVersion with a blank
\* version, content hash or uploader and updateTaskStatus with an empty
\* argument or an unrecognized status return a failure envelope without a
\* single put, and the ledger is what it was, whether or not the ledger's
\* reads and writes would have failed.
C19_ValidationBeforeWrite ==
    \A call \in InvalidCalls : \A getFault, putFault \in BOOLEAN :
       \A out \in InvokeOutcomes(call[1], call[2], getFault, putFault) :
          /\ ~out.res.success
          /\ out.res.error # ""
          /\ out.puts = 0
          /\ out.state = ledger

\* on a stored task the three kinds of invalid call are refused, where the
\* same calls with valid values would have written
C19_Witness ==
    /\ HasRecord(ledger, T1)
    /\ \E out \in InvokeOutcomes("createTask", <<T2, <<" ">>, <<"d">>, U1, U2>>,
                                 FALSE, FALSE) :
          ~out.res.success /\ out.res.error = "field_empty:title" /\ out.state = ledger
    /\ \E out \in InvokeOutcomes("createTask", <<T2, <<"a">>, <<"d">>, U1, U2>>,
                                 FALSE, FALSE) :
          out.res.success /\ out.state # ledger
    /\ \E out \in InvokeOutcomes("updateTaskStatus", <<T1, BOGUS, U1>>,
                                 FALSE, FALSE) :
          ~out.res.success /\ out.res.error = "invalid_status" /\ out.state = ledger
    /\ \E out \in InvokeOutcomes("updateTaskStatus", <<T1, TASK_STATUS_COMPLETED, U1>>,
                                 FALSE, FALSE) :
          out.res.success /\ out.state # ledger
    /\ \E out \in InvokeOutcomes("addDocumentVersion", <<T1, D1, V1, <<"\t", " ">>, U1>>,
                                 FALSE, FALSE) :
          ~out.res.success /\ out.res.error = "field_empty:content_hash"
          /\ out.state = ledger

\* ----------------------------------------------------------------- C18
\* the metadata values stored with the versions of every task on the ledger
StoredMetadata ==
    { json_loads(ledger[key]).documents[i].versions[j].metadata :
        <<key, i, j>> \in
          { t \in (DOMAIN ledger) \X (1..MaxVersions + 1) \X (1..MaxVersions + 1) :
              /\ t[2] <= Len(json_loads(ledger[t[1]]).documents)
              /\ t[3] <= Len(json_loads(ledger[t[1]]).documents[t[2]].versions) } }

\* C18 (as claimed): the metadata stored with every document version is a
\* key-value map, never a number, list, string or null.
C18_MetadataIsMap ==
    \A metadata \in StoredMetadata : metadata # None /\ metadata.type = "dict"

\* ------------------------------------------- the engine on a running clock
\* the handlers invoked while the clock moves on, up to MaxTick: every
\* invocation reads the clock at non-decreasing values not before the last
\* reading; a read fault lets a creation replace a stored task
TimedCreateArgs == { <<T1, <<"a">>, <<"d">>, U1, U2>> }

TimedUpdateArgs == { <<T1, TASK_STATUS_IN_PROGRESS, U1>>, <<T1, BOGUS, U1>> }

TimedAddArgs == { <<T1, D1, V1, H1, U1>> }

TimedCreate ==
    /\ Total(creates, DOMAIN creates) < MaxCreates
    /\ \E getFault \in BOOLEAN : CreateStep(TimedCreateArgs, MaxTick, getFault, FALSE)

TimedUpdate ==
    \E putFault \in BOOLEAN : UpdateStep(TimedUpdateArgs, MaxTick, FALSE, putFault)

TimedAdd ==
    /\ TotalVersions(ledger, DOMAIN ledger) < MaxVersions
    /\ AddStep(TimedAddArgs, MaxTick, FALSE, FALSE)

TimedGetTask == GetTaskStep({<<T1>>}, MaxTick, FALSE)

TimedNext ==
    \/ TimedCreate
    \/ TimedUpdate
    \/ TimedAdd
    \/ TimedGetTask

TimedSpec == Init /\ [][TimedNext]_vars

\* ----------------------------------------------------------------- C17
\* every stored task was updated no earlier than it was created
UpdatedAfterCreated ==
    \A key \in DOMAIN ledger :
        json_loads(ledger[key]).updated_at >= json_loads(ledger[key]).created_at

\* no step moves the updated_at of a stored task backwards
C17_Step ==
    \A key \in (DOMAIN ledger) \cap (DOMAIN ledger') :
        json_loads(ledger'[key]).updated_at >= json_loads(ledger[key]).updated_at

\* C17: in every reachable state each stored task has updated_at >=
\* created_at, and the updated_at of a task never decreases from one
\* invocation to the next, the clock being non-decreasing.
C17_UpdatedAtMonotone == [](UpdatedAfterCreated) /\ [][C17_Step]_vars

\* a task created, then updated and given a document at later clock
\* readings
C17_Witness ==
    /\ HasRecord(ledger, T1)
    /\ StoredTask(ledger, T1).status = TASK_STATUS_IN_PROGRESS
    /\ StoredTask(ledger, T1).documents # <<>>
    /\ StoredTask(ledger, T1).created_at >= 1
    /\ StoredTask(ledger, T1).updated_at > StoredTask(ledger, T1).created_at
    /\ StoredTask(ledger, T1).updated_at
          > StoredTask(ledger, T1).documents[1].versions[1].uploaded_at

\* ------------------------------------------------- backend: authorization
\* A Cyrillic letter of a role label is the one-character string named by
\* its code point: "u044e" is the letter U+044E.
CapitalSigma == "u03a3"

\* the final-sigma test of str.lower(): the capital sigma at position i is
\* preceded by a cased letter and not followed by one, case-ignorable
\* characters skipped on both sides
FinalSigma(s, i) ==
    LET before == {j \in 1..(i - 1) : s[j] \notin CaseIgnorable}
        after == {j \in (i + 1)..Len(s) : s[j] \notin CaseIgnorable}
    IN  /\ before # {}
        /\ s[CHOOSE j \in before : \A k \in before : k <= j] \in Cased
        /\ \/ after = {}
           \/ s[CHOOSE j \in after : \A k \in after : j <= k] \notin Cased

\* str.lower(), one character out of context
LowerChar(c) == IF c \in DOMAIN LowerMap THEN LowerMap[c] ELSE <<c>>

\* str.lower() from position i on
RECURSIVE LowerFrom(_, _)
LowerFrom(s, i) ==
    IF i > Len(s) THEN <<>>
    ELSE (IF s[i] = CapitalSigma
          THEN (IF FinalSigma(s, i) THEN <<"u03c2">> ELSE <<"u03c3">>)
          ELSE LowerChar(s[i])) \o LowerFrom(s, i + 1)

\* str.lower()
lower(s) == LowerFrom(s, 1)

\* UserRole: the members, and their values
JURIST == "JURIST"
EXPERT == "EXPERT"
MODERATOR == "MODERATOR"
ADMIN == "ADMIN"
UserRole == {JURIST, EXPERT, MODERATOR, ADMIN}

\* Optional[UserRole] is a role or NoRole (None)
NoRole == "None"

LabelJurist == <<"u044e","u0440","u0438","u0441","u0442">>
LabelExpert == <<"u044d","u043a","u0441","u043f","u0435","u0440","u0442">>
LabelModerator == <<"u043c","u043e","u0434","u0435","u0440","u0430","u0442","u043e","u0440">>
LabelAdmin == <<"a","d","m","i","n">>
LabelAdministrator ==
    <<"u0430","u0434","u043c","u0438","u043d","u0438","u0441","u0442","u0440",
      "u0430","u0442","u043e","u0440">>

\* Permission
ADD_DOCUMENT_VERSION == "add_document_version"
CONFIRM_TASK == "confirm_task"
UPDATE_TASK_STATUS == "update_task_status"
CREATE_TASK == "create_task"
VIEW_TASK == "view_task"
VIEW_DOCUMENTS == "view_documents"
Permission ==
    {ADD_DOCUMENT_VERSION, CONFIRM_TASK, UPDATE_TASK_STATUS, CREATE_TASK,
     VIEW_TASK, VIEW_DOCUMENTS}

ROLE_PERMISSIONS ==
    [role \in UserRole |->
        CASE role = JURIST -> {ADD_DOCUMENT_VERSION, VIEW_TASK, VIEW_DOCUMENTS}
          [] role = EXPERT -> {CONFIRM_TASK, VIEW_TASK, VIEW_DOCUMENTS}
          [] role = MODERATOR -> {UPDATE_TASK_STATUS, VIEW_TASK, VIEW_DOCUMENTS}
          [] role = ADMIN -> {CREATE_TASK, UPDATE_TASK_STATUS, ADD_DOCUMENT_VERSION,
                              CONFIRM_TASK, VIEW_TASK, VIEW_DOCUMENTS}]

\* has_permission that grants every permission to every role
has_permission_open(user_role, permission) == TRUE

\* auth.has_permission
has_permission(user_role, permission) ==
    IF user_role = ADMIN THEN TRUE
    ELSE permission \in (IF user_role \in DOMAIN ROLE_PERMISSIONS
                         THEN ROLE_PERMISSIONS[user_role] ELSE {})

\* the dict role_mapping of get_user_role_from_header
role_mapping ==
    (LabelJurist :> JURIST) @@ (<<"j","u","r","i","s","t">> :> JURIST)
    @@ (LabelExpert :> EXPERT) @@ (<<"e","x","p","e","r","t">> :> EXPERT)
    @@ (LabelModerator :> MODERATOR)
    @@ (<<"m","o","d","e","r","a","t","o","r">> :> MODERATOR)
    @@ (LabelAdmin :> ADMIN) @@ (LabelAdministrator :> ADMIN)

\* the X-User-Role header: None when absent, else [value |-> the label]
HeaderOf(label) == [value |-> label]

\* auth.get_user_role_from_header
get_user_role_from_header(x_user_role) ==
    IF x_user_role = None THEN NoRole
    ELSE IF x_user_role.value = <<>> THEN NoRole
    ELSE IF strip(lower(x_user_role.value)) \in DOMAIN role_mapping
         THEN role_mapping[strip(lower(x_user_role.value))]
         ELSE NoRole

\* HTTP status codes
HTTP_200_OK == 200
HTTP_201_CREATED == 201
HTTP_400_BAD_REQUEST == 400
HTTP_401_UNAUTHORIZED == 401
HTTP_403_FORBIDDEN == 403
HTTP_404_NOT_FOUND == 404
HTTP_422_UNPROCESSABLE_ENTITY == 422
HTTP_500_INTERNAL_SERVER_ERROR == 500

\* require_permission(permission).permission_checker: the status of the
\* HTTPException raised, or 0 when the role is returned
require_permission(permission, x_user_role) ==
    IF get_user_role_from_header(x_user_role) = NoRole THEN HTTP_401_UNAUTHORIZED
    ELSE IF ~has_permission(get_user_role_from_header(x_user_role), permission)
         THEN HTTP_403_FORBIDDEN
         ELSE 0

\* ---------------------------------------------- the taskdocument chaincode
\* The chaincode the client addresses by its name "taskdocument"
\* (src/chaincode.py, served by grpc_server.process_invoke): its handlers
\* neither validate nor normalise their arguments, and their result is the
\* dict itself, without the envelope of format_response.

\* f"TASK_{task_id}"
TaskDocumentKey(task_id) == <<"T","A","S","K","_">> \o task_id

\* a failure result, returned before any reading of the clock
TaskDocumentFail(state, error, gets) ==
    [res |-> [success |-> FALSE, error |-> error], state |-> state, reads |-> 0,
     gets |-> gets, puts |-> 0]

\* TaskDocumentChaincode._get_state: the record, or None when the key is
\* unset or the read raises (fault)
TaskDocument_get_state(state, key, fault) ==
    IF fault THEN None
    ELSE IF stub_get_state(state, key) = None THEN None
    ELSE json_loads(stub_get_state(state, key))

\* json.dumps(value) in _put_state succeeds: every str is escaped to ASCII,
\* only the nesting of a metadata value can be too deep
TaskDocumentStorable(task) ==
    \A i \in 1..Len(DocumentsOf(task)) :
       \A j \in 1..Len(VersionsOf(DocumentsOf(task)[i])) :
          MetaDepth(VersionsOf(DocumentsOf(task)[i])[j].metadata) <= StorableNesting

\* TaskDocumentChaincode._put_state
TaskDocument_put_state(state, key, value, fault) ==
    IF fault \/ ~TaskDocumentStorable(value) THEN [ok |-> FALSE, state |-> state]
    ELSE [ok |-> TRUE, state |-> stub_put_state(state, key, json_dumps(value))]

\* a handler's answer after its write: the result when the write was made
TaskDocumentStored(put, result, reads) ==
    [res |-> IF put.ok THEN result ELSE [success |-> FALSE, error |-> "put_failed"],
     state |-> put.state, reads |-> reads, gets |-> 1, puts |-> 1]

\* TaskDocumentChaincode.create_task
TaskDocument_create_task(state, task_id, title, description, assignee, creator, ts, getFault, putFault) ==
    LET task_key == TaskDocumentKey(task_id)
        task == [task_id |-> task_id, title |-> title, description |-> description,
                 assignee |-> assignee, creator |-> creator,
                 status |-> TASK_STATUS_CREATED,
                 created_at |-> ts[1],
                 updated_at |-> ts[2],
                 documents |-> <<>>]
    IN  IF Truthy(TaskDocument_get_state(state, task_key, getFault))
        THEN TaskDocumentFail(state, "task_exists", 1)
        ELSE TaskDocumentStored(TaskDocument_put_state(state, task_key, task, putFault),
                                [success |-> TRUE, task |-> task], 2)

\* valid_statuses of TaskDocumentChaincode.update_task_status
TaskDocumentStatuses ==
    { TASK_STATUS_CREATED, TASK_STATUS_IN_PROGRESS,
      TASK_STATUS_COMPLETED, TASK_STATUS_CANCELLED }

\* update_task_status from the status check on, for the task read
TaskDocumentUpdate(state, task_key, task, new_status, updated_by, ts, putFault) ==
    LET updated == DictSet(DictSet(DictSet(task, "status", new_status),
                                   "updated_at", ts[1]),
                           "updated_by", updated_by)
    IN  TaskDocumentStored(TaskDocument_put_state(state, task_key, updated, putFault),
                           [success |-> TRUE, task |-> updated,
                            old_status |-> DictGet(task, "status"),
                            new_status |-> new_status], 1)

\* TaskDocumentChaincode.update_task_status
TaskDocument_update_task_status(state, task_id, new_status, updated_by, ts, getFault, putFault) ==
    CHOOSE r \in
      { IF ~Truthy(task) THEN TaskDocumentFail(state, "task_not_found", 1)
        ELSE IF new_status \notin TaskDocumentStatuses
        THEN TaskDocumentFail(state, "invalid_status", 1)
        ELSE TaskDocumentUpdate(state, TaskDocumentKey(task_id), task, new_status,
                                updated_by, ts, putFault) :
          task \in { TaskDocument_get_state(state, TaskDocumentKey(task_id), getFault) } } : TRUE

\* bool(value) is False: the values "metadata or {}" replaces by {}
MetaFalsy(value) ==
    IF value = None THEN TRUE
    ELSE CASE value.type = "bool" -> ~value.val
           [] value.type = "int" -> value.text = <<"0">>
           [] value.type = "float" -> value.text \in {<<"0", ".", "0">>, <<"-", "0", ".", "0">>}
           [] value.type = "str" -> value.text = <<>>
           [] OTHER -> value.items = <<>>

\* add_document_version from the attachment on, for the task read
TaskDocumentAttach(state, task_key, task, document_id, document_version, ts, putFault) ==
    LET documents == DocumentsOf(task)
        \* datetime.utcnow() is read once more when the document is new
        n == IF FindDocument(documents, document_id) # 0 THEN 2 ELSE 3
        updated == DictSet(DictSet(task, "documents",
                                   AttachVersion(documents, document_id, document_version, ts)),
                           "updated_at", ts[n])
    IN  TaskDocumentStored(TaskDocument_put_state(state, task_key, updated, putFault),
                           [success |-> TRUE, task |-> updated,
                            document_version |-> document_version], n)

\* TaskDocumentChaincode.add_document_version
TaskDocument_add_document_version(state, task_id, document_id, version, content_hash, uploaded_by, metadata, ts, getFault, putFault) ==
    CHOOSE r \in
      { IF ~Truthy(task) THEN TaskDocumentFail(state, "task_not_found", 1)
        ELSE TaskDocumentAttach(state, TaskDocumentKey(task_id), task, document_id,
                                [document_id |-> document_id,
                                 version |-> version,
                                 content_hash |-> content_hash,
                                 uploaded_by |-> uploaded_by,
                                 uploaded_at |-> ts[1],
                                 metadata |-> IF MetaFalsy(metadata) THEN EmptyDict
                                              ELSE metadata],
                                ts, putFault) :
          task \in { TaskDocument_get_state(state, TaskDocumentKey(task_id), getFault) } } : TRUE

\* get_document_versions for the task read
TaskDocumentVersions(state, task, task_id, document_id) ==
    LET found == FindDocument(DocumentsOf(task), document_id)
        versions == VersionsOf(DocumentsOf(task)[found])
    IN  IF ~Truthy(task) THEN TaskDocumentFail(state, "task_not_found", 1)
        ELSE IF found = 0 THEN TaskDocumentFail(state, "document_not_found", 1)
        ELSE [res |-> [success |-> TRUE, task_id |-> task_id,
                       document_id |-> document_id, versions |-> versions,
                       total_versions |-> Len(versions)],
              state |-> state, reads |-> 0, gets |-> 1, puts |-> 0]

\* TaskDocumentChaincode.get_document_versions
TaskDocument_get_document_versions(state, task_id, document_id, getFault) ==
    CHOOSE r \in
      { TaskDocumentVersions(state, task, task_id, document_id) :
          task \in { TaskDocument_get_state(state, TaskDocumentKey(task_id), getFault) } } : TRUE

\* TaskDocumentChaincode.get_task
TaskDocument_get_task(state, task_id, getFault) ==
    CHOOSE r \in
      { IF ~Truthy(task) THEN TaskDocumentFail(state, "task_not_found", 1)
        ELSE [res |-> [success |-> TRUE, task |-> task],
              state |-> state, reads |-> 0, gets |-> 1, puts |-> 0] :
          task \in { TaskDocument_get_state(state, TaskDocumentKey(task_id), getFault) } } : TRUE

\* the metadata argument of addDocumentVersion: json.loads(args[5]), and {}
\* for whatever it raises; the call is one frame above the one parse_metadata
\* makes
TaskDocumentMetadata(text) ==
    CHOOSE r \in
      { IF value \in {JSONDecodeError, ValueError, RecursionError} THEN EmptyDict
        ELSE value :
          value \in { json_loads_text(text, -1) } } : TRUE

\* invoke_chaincode of src/chaincode.py; engine lists the handlers invoked
TaskDocument_invoke_chaincode(state, function, args, ts, getFault, putFault) ==
    IF function = "createTask"
    THEN IF Len(args) # 5
         THEN TaskDocumentFail(state, "wrong_argument_count", 0) @@ [engine |-> <<>>]
         ELSE Invoked(TaskDocument_create_task(state, args[1], args[2], args[3], args[4],
                                               args[5], ts, getFault, putFault),
                      "create_task")
    ELSE IF function = "updateTaskStatus"
    THEN IF Len(args) # 3
         THEN TaskDocumentFail(state, "wrong_argument_count", 0) @@ [engine |-> <<>>]
         ELSE Invoked(TaskDocument_update_task_status(state, args[1], args[2], args[3],
                                                      ts, getFault, putFault),
                      "update_task_status")
    ELSE IF function = "addDocumentVersion"
    THEN IF Len(args) < 5
         THEN TaskDocumentFail(state, "wrong_argument_count", 0) @@ [engine |-> <<>>]
         ELSE Invoked(TaskDocument_add_document_version(state, args[1], args[2], args[3],
                          args[4], args[5],
                          IF Len(args) > 5 THEN TaskDocumentMetadata(args[6]) ELSE None,
                          ts, getFault, putFault),
                      "add_document_version")
    ELSE IF function = "getDocumentVersions"
    THEN IF Len(args) # 2
         THEN TaskDocumentFail(state, "wrong_argument_count", 0) @@ [engine |-> <<>>]
         ELSE Invoked(TaskDocument_get_document_versions(state, args[1], args[2], getFault),
                      "get_document_versions")
    ELSE IF function = "getTask"
    THEN IF Len(args) # 1
         THEN TaskDocumentFail(state, "wrong_argument_count", 0) @@ [engine |-> <<>>]
         ELSE Invoked(TaskDocument_get_task(state, args[1], getFault), "get_task")
    ELSE TaskDocumentFail(state, "unknown_function", 0) @@ [engine |-> <<>>]

\* ------------------------------------------------------- backend: client
\* What stands behind the six routes of main.py:
\*   "unstarted"   the module as it is: importing main.py raises NameError at
\*                 the annotation Dict[str, Any] of get_current_user_info,
\*                 after the six routes are defined, and importing client.py
\*                 with a Fabric SDK installed raises NameError at
\*                 logger.info; no server runs and no request is answered
\*   "unbuilt"     the routes served while get_chaincode_client raises
\*                 RuntimeError: the connection profile named by
\*                 FABRIC_CONNECTION_PROFILE (by default
\*                 client/connection-org1.json, which the repository does
\*                 not hold) cannot be read
\*   "simplified"  the routes served and the profile read: the client is
\*                 built without an SDK and its network is None
\* A client whose network is an object needs an SDK, and with an SDK
\* client.py cannot be imported: no deployment reaches a chaincode.
Deployments == {"unstarted", "unbuilt", "simplified"}

\* the status of a request that is not answered
NoResponse == 0

\* dependencies.get_chaincode_client: the status of the error raised, or 0
\* when the client is returned
get_chaincode_client(deployment) ==
    IF deployment = "unbuilt" THEN HTTP_500_INTERNAL_SERVER_ERROR ELSE 0

\* ChaincodeClient.invoke_chaincode with network None: _invoke_simple
\* answers; called is the function and the arguments the client was given
client_invoke_chaincode(state, function, args) ==
    [result |-> [success |-> FALSE, error |-> "sdk_required"],
     state |-> state, called |-> <<function, args>>,
     gets |-> 0, puts |-> 0, engine |-> <<>>]

\* ChaincodeClient.query_chaincode with network None: _query_simple answers
client_query_chaincode(state, function, args) ==
    [result |-> [success |-> FALSE, error |-> "sdk_required"],
     state |-> state, called |-> <<function, args>>,
     gets |-> 0, puts |-> 0, engine |-> <<>>]

\* ---------------------------------------------------- backend: endpoints
\* the six endpoints of main.py, named by their handler
Endpoints ==
    {"create_task", "update_task_status", "add_document_version",
     "get_document_versions", "get_task", "confirm_task"}

\* the permission each endpoint requires: Depends(require_permission(...))
EndpointPermission(op) ==
    CASE op = "create_task" -> CREATE_TASK
      [] op = "update_task_status" -> UPDATE_TASK_STATUS
      [] op = "add_document_version" -> ADD_DOCUMENT_VERSION
      [] op = "get_document_versions" -> VIEW_DOCUMENTS
      [] op = "get_task" -> VIEW_TASK
      [] op = "confirm_task" -> CONFIRM_TASK

\* the statuses UpdateTaskStatusRequest.validate_status lets through
RequestStatuses == VALID_TASK_STATUSES \cup {CONFIRMED}

\* the request models of models.py (min_length = 1, validate_status); a
\* body is the tuple of the request's fields; the path and query parameters
\* of a GET are plain str parameters, which every text satisfies
RequestValid(op, body) ==
    CASE op = "create_task" ->
            body[1] # <<>> /\ body[2] # <<>> /\ body[4] # <<>> /\ body[5] # <<>>
      [] op = "update_task_status" ->
            body[1] # <<>> /\ upper(body[2]) \in RequestStatuses /\ body[3] # <<>>
      [] op = "add_document_version" ->
            \A i \in 1..5 : body[i] # <<>>
      [] op = "get_document_versions" -> TRUE
      [] op = "get_task" -> TRUE
      [] op = "confirm_task" -> body[1] # <<>> /\ body[2] # <<>>

\* the client method each endpoint calls: the chaincode function and its
\* argument list (ChaincodeClient.create_task .. get_task)
ClientCall(op, body) ==
    CASE op = "create_task" -> <<"createTask", body>>
      [] op = "update_task_status" ->
            <<"updateTaskStatus", <<body[1], upper(body[2]), body[3]>>>>
      [] op = "add_document_version" ->
            <<"addDocumentVersion",
              IF body[6] # None /\ body[6] # EmptyDict
              THEN SubSeq(body, 1, 5) \o <<json_dumps_text(body[6])>>
              ELSE SubSeq(body, 1, 5)>>
      [] op = "get_document_versions" -> <<"getDocumentVersions", body>>
      [] op = "get_task" -> <<"getTask", body>>
      [] op = "confirm_task" -> <<"updateTaskStatus", <<body[1], CONFIRMED, body[2]>>>>

\* the status an endpoint raises when the client's result is not a success
FailureStatus(op) ==
    IF op \in {"get_document_versions", "get_task"}
    THEN HTTP_404_NOT_FOUND ELSE HTTP_400_BAD_REQUEST

\* the status of a served request
SuccessStatus(op) ==
    IF op \in {"create_task", "add_document_version"}
    THEN HTTP_201_CREATED ELSE HTTP_200_OK

\* the fields TaskData requires
TaskDataFields ==
    {"task_id", "title", "description", "assignee", "creator", "status",
     "created_at", "updated_at"}

\* the response model built from result["data"]: TaskResponse takes
\* data.get("task", {}), DocumentVersionsResponse takes data.get("task_id")
\* and data.get("document_id"); a failed validation raises
ResponseValid(op, data) ==
    IF op = "get_document_versions"
    THEN {"task_id", "document_id"} \subseteq DOMAIN data
    ELSE /\ "task" \in DOMAIN data
         /\ TaskDataFields \subseteq DOMAIN data.task

\* a response sent without a call of the client
Answer(state, http) ==
    [http |-> http, state |-> state, called |-> <<>>, gets |-> 0, puts |-> 0,
     engine |-> <<>>]

\* the status of the response to a client result
ResponseStatus(op, result) ==
    IF ~result.success THEN FailureStatus(op)
    ELSE IF ~ResponseValid(op, result.data) THEN HTTP_500_INTERNAL_SERVER_ERROR
    ELSE SuccessStatus(op)

\* a response sent after the client was called
AnswerAfter(op, called) == [http |-> ResponseStatus(op, called.result)] @@ called

\* an endpoint of main.py.  Its dependencies are resolved in the order of
\* its parameters, the client before the permission, and before the body is
\* validated; then the client method is called and the response model built
Endpoint(state, op, x_user_role, body, deployment) ==
    LET call == ClientCall(op, body)
        called == IF op \in {"get_document_versions", "get_task"}
                  THEN client_query_chaincode(state, call[1], call[2])
                  ELSE client_invoke_chaincode(state, call[1], call[2])
    IN  IF deployment = "unstarted" THEN Answer(state, NoResponse)
        ELSE IF get_chaincode_client(deployment) # 0
        THEN Answer(state, get_chaincode_client(deployment))
        ELSE IF require_permission(EndpointPermission(op), x_user_role) # 0
        THEN Answer(state, require_permission(EndpointPermission(op), x_user_role))
        ELSE IF ~RequestValid(op, body)
        THEN Answer(state, HTTP_422_UNPROCESSABLE_ENTITY)
        ELSE AnswerAfter(op, called)

\* ---------------------------------------------------- the API and the ledger
\* X-User-Role headers: absent, the labels in several spellings and a label
\* that names no role
Headers ==
    { None, HeaderOf(LabelJurist), HeaderOf(<<"J","u","r","i","s","t">>),
      HeaderOf(<<"u042d","u041a","u0421","u041f","u0415","u0420","u0422">>),
      HeaderOf(<<" ">> \o <<"e","x","p","e","r","t">> \o <<" ">>),
      HeaderOf(LabelModerator), HeaderOf(LabelAdmin),
      HeaderOf(<<"g","u","e","s","t">>) }

\* request bodies of each endpoint; for the two GET endpoints the task_id
\* and the document identifier, the one that is a path parameter not empty
\* (an empty one matches no route)
Bodies(op) ==
    CASE op = "create_task" ->
            { <<T1, <<"a">>, <<"d">>, U1, U2>>, <<T2, <<"a">>, <<"d">>, U1, U2>>,
              <<T2, <<"a">>, <<>>, U1, U2>>,
              <<T1, <<>>, <<"d">>, U1, U2>> }
      [] op = "update_task_status" ->
            { <<T1, TASK_STATUS_IN_PROGRESS, U1>>,
              <<T1, <<"c","o","m","p","l","e","t","e","d">>, U1>>,
              <<T2, TASK_STATUS_CANCELLED, U1>>, <<T2, TASK_STATUS_IN_PROGRESS, U2>>,
              <<T1, CONFIRMED, U1>>, <<T1, TASK_STATUS_CANCELLED, U2>>,
              <<T1, <<"c","o","n","f","i","r","m","e","d">>, U2>>,
              <<T1, <<"d","o","n","e">>, U1>> }
      [] op = "add_document_version" ->
            { <<T1, D1, V1, H1, U1, None>>,
              <<T1, D2, V2, H2, U2, KeyValue>>,
              <<T1, D1, <<>>, H1, U1, EmptyDict>> }
      [] op = "get_document_versions" ->
            { <<T1, D1>>, <<T2, D1>>, <<<<>>, D1>>, <<T1, D2>> }
      [] op = "get_task" -> { <<T1>>, <<T2>>, <<T3>> }
      [] op = "confirm_task" -> { <<T1, U1>>, <<T2, U2>>, <<T1, <<>>>> }

\* the response an endpoint gives in the current state
EndpointOutcomes(op, x_user_role, body, deployment) ==
    { Endpoint(ledger, op, x_user_role, body, deployment) }

\* one request to an endpoint
Request(op) ==
    \E x_user_role \in Headers, body \in Bodies(op), deployment \in Deployments :
      \E out \in EndpointOutcomes(op, x_user_role, body, deployment) :
         /\ ledger' = out.state
         /\ UNCHANGED <<clock, creates, attached, firstSeen, derived, inflight>>

PostTaskCreate == Request("create_task")

PostTaskStatusUpdate == Request("update_task_status")

PostDocumentAddVersion == Request("add_document_version")

GetDocumentVersionsOfDocument == Request("get_document_versions")

GetTaskById == Request("get_task")

PostTaskConfirm == Request("confirm_task")

\* the transactions other clients of the channel submit to the taskdocument
\* chaincode
ChannelCalls ==
    { <<"createTask", <<T1, <<"a">>, <<"d">>, U1, U2>>>>,
      <<"createTask", <<T2, <<"b">>, <<"e">>, U2, U1>>>>,
      <<"updateTaskStatus", <<T1, TASK_STATUS_IN_PROGRESS, U1>>>>,
      <<"updateTaskStatus", <<T1, TASK_STATUS_COMPLETED, U2>>>>,
      <<"updateTaskStatus", <<T2, TASK_STATUS_CANCELLED, U1>>>>,
      <<"updateTaskStatus", <<T1, CONFIRMED, U1>>>>,
      <<"addDocumentVersion", <<T1, D1, V1, H1, U1>>>>,
      <<"addDocumentVersion", <<T1, D2, V2, H2, U2, KeyValueText>>>>,
      <<"addDocumentVersion", <<T2, D1, V1, H1, U1>>>>,
      <<"getTask", <<T1>>>>,
      <<"getDocumentVersions", <<T1, D1>>>> }

\* a transaction of another client: invoke_chaincode of src/chaincode.py on
\* the ledger of the channel, whose reads and writes may raise
SubmitTransaction(getFault, putFault) ==
    \E call \in ChannelCalls :
      /\ call[1] = "createTask" => Total(creates, DOMAIN creates) < MaxCreates
      /\ call[1] = "addDocumentVersion" =>
            /\ TotalVersions(ledger, DOMAIN ledger) < MaxVersions
            /\ TotalLen(attached, DOMAIN attached) < MaxVersions
      /\ \E out \in { TaskDocument_invoke_chaincode(ledger, call[1], call[2], Still(clock),
                                                     getFault, putFault) } :
           LET tid == call[2][1]
               created == out.engine = <<"create_task">> /\ out.res.success
               added == out.engine = <<"add_document_version">> /\ out.res.success
           IN  /\ ledger' = out.state
               /\ clock' = clock
               /\ creates' = IF created
                             THEN DictSet(creates, create_task_key(tid),
                                          Count(creates, create_task_key(tid)) + 1)
                             ELSE creates
               /\ attached' = IF added
                              THEN DictSet(attached, <<tid, call[2][2]>>,
                                       Append(Log(attached, <<tid, call[2][2]>>),
                                              out.res.document_version))
                              ELSE attached
               /\ firstSeen' = IF added
                               THEN DictSet(firstSeen, tid,
                                        AppendNew(Log(firstSeen, tid), call[2][2]))
                               ELSE firstSeen
               /\ UNCHANGED <<derived, inflight>>

BackendNext ==
    \/ PostTaskCreate
    \/ PostTaskStatusUpdate
    \/ PostDocumentAddVersion
    \/ GetDocumentVersionsOfDocument
    \/ GetTaskById
    \/ PostTaskConfirm
    \/ \E getFault, putFault \in BOOLEAN : SubmitTransaction(getFault, putFault)

\* the REST endpoints in front of a ledger that the other clients of the
\* channel write
BackendSpec == Init /\ [][BackendNext]_vars

\* ----------------------------------------------------------------- C12
\* the permission matrix as the specification states it: the operations each
\* role may request, besides ADMIN who may request all
SpecMatrix ==
    [role \in {JURIST, EXPERT, MODERATOR} |->
        CASE role = JURIST -> {"add_document_version", "get_document_versions", "get_task"}
          [] role = EXPERT -> {"confirm_task", "get_document_versions", "get_task"}
          [] role = MODERATOR -> {"update_task_status", "get_document_versions", "get_task"}]

\* a request the specification lets through to the engine
Allowed(role, op) ==
    role = ADMIN \/ (role \in DOMAIN SpecMatrix /\ op \in SpecMatrix[role])

\* headers of every role in several spellings, of no role, and none
ProbeHeaders ==
    Headers
    \cup { HeaderOf(<<>>), HeaderOf(<<" ">>),
           HeaderOf(<<"M","O","D","E","R","A","T","O","R">>),
           HeaderOf(LabelExpert), HeaderOf(LabelAdministrator),
           HeaderOf(<<"A","d","m","i","n">>),
           HeaderOf(<<"j","u","r","i","s","t","s">>) }

\* C12: a request is handed to the client, and so can reach the engine,
\* only if the caller's resolved role is ADMIN or the matrix entry of the
\* role lists the requested operation; every other request is refused
\* without a client call, an engine call, a ledger read or write, and the
\* ledger is unchanged: with 401 or 403 where the client was built, with
\* 500 where it could not be built, and with no response where no server
\* runs.  has_permission is total: a role without a matrix entry has no
\* permission.
C12_DeniedBeforeEngine ==
    /\ \A op \in Endpoints : \A x_user_role \in ProbeHeaders :
       \A body \in Bodies(op) : \A deployment \in Deployments :
       \A out \in EndpointOutcomes(op, x_user_role, body, deployment) :
       \A role \in { get_user_role_from_header(x_user_role) } :
          /\ (out.called # <<>> \/ out.engine # <<>>) => Allowed(role, op)
          /\ ~Allowed(role, op) =>
                /\ out.http = CASE deployment = "unstarted" -> NoResponse
                                 [] deployment = "unbuilt" -> HTTP_500_INTERNAL_SERVER_ERROR
                                 [] deployment = "simplified" ->
                                       IF role = NoRole THEN HTTP_401_UNAUTHORIZED
                                       ELSE HTTP_403_FORBIDDEN
                /\ out.called = <<>>
                /\ out.engine = <<>>
                /\ out.gets = 0 /\ out.puts = 0
                /\ out.state = ledger
    /\ \A role \in UserRole \cup {NoRole, "GUEST"} : \A permission \in Permission :
          /\ has_permission(role, permission) \in BOOLEAN
          /\ role \notin UserRole => ~has_permission(role, permission)

\* on a stored task a JURIST asking for a status update is answered 403
\* where the client was built and 500 where it was not, nothing being handed
\* to the client, while the same request of a MODERATOR and of an ADMIN is
\* handed to the client as an updateTaskStatus call
C12_Witness ==
    /\ HasRecord(ledger, T1)
    /\ StoredTask(ledger, T1).status = TASK_STATUS_CREATED
    /\ \E out \in EndpointOutcomes("update_task_status", HeaderOf(LabelJurist),
                                   <<T1, TASK_STATUS_IN_PROGRESS, U1>>, "simplified") :
          out.http = HTTP_403_FORBIDDEN /\ out.called = <<>> /\ out.state = ledger
    /\ \E out \in EndpointOutcomes("update_task_status", HeaderOf(LabelJurist),
                                   <<T1, TASK_STATUS_IN_PROGRESS, U1>>, "unbuilt") :
          out.http = HTTP_500_INTERNAL_SERVER_ERROR /\ out.called = <<>>
    /\ \E out \in EndpointOutcomes("update_task_status", None,
                                   <<T1, TASK_STATUS_IN_PROGRESS, U1>>, "simplified") :
          out.http = HTTP_401_UNAUTHORIZED /\ out.called = <<>>
    /\ \A label \in {LabelModerator, LabelAdmin} :
       \E out \in EndpointOutcomes("update_task_status", HeaderOf(label),
                                   <<T1, TASK_STATUS_IN_PROGRESS, U1>>, "simplified") :
          /\ out.called = <<"updateTaskStatus", <<T1, TASK_STATUS_IN_PROGRESS, U1>>>>
          /\ out.http = HTTP_400_BAD_REQUEST
          /\ out.state = ledger

\* ----------------------------------------------------------------- C13
\* the labels of each role, localized and ASCII
RoleLabels(role) ==
    CASE role = JURIST -> {LabelJurist, <<"j","u","r","i","s","t">>}
      [] role = EXPERT -> {LabelExpert, <<"e","x","p","e","r","t">>}
      [] role = MODERATOR -> {LabelModerator, <<"m","o","d","e","r","a","t","o","r">>}
      [] role = ADMIN -> {LabelAdministrator, LabelAdmin}

\* a letter in upper case
Capital(c) == IF Len(UpperChar(c)) = 1 THEN UpperChar(c)[1] ELSE c

\* spellings of a label: as it is, in upper case, capitalized, with every
\* second letter in upper case, and padded with whitespace
Spellings(label) ==
    LET cased == { label,
                   [i \in 1..Len(label) |-> Capital(label[i])],
                   [i \in 1..Len(label) |-> IF i = 1 THEN Capital(label[i]) ELSE label[i]],
                   [i \in 1..Len(label) |-> IF i % 2 = 0 THEN Capital(label[i]) ELSE label[i]] }
    IN  cased \cup { <<" ">> \o l \o <<"\t", " ">> : l \in cased }
              \cup { <<NBSP>> \o l \o <<CR, EMSP>> : l \in cased }

\* labels that name no role
UnknownLabels ==
    { <<>>, <<" ">>, <<"g","u","e","s","t">>, <<"j","u","r","i","s","t","s">>,
      <<"j","u","r"," ","i","s","t">>, <<"u044e","u0440">>, <<"r","o","o","t">>,
      <<"A","D","M","u0130","N">>, <<"j","u","r","i","u017f","t">>, <<EMSP>> }

C16_ConfirmStoresConfirmed ==
    \A task_id \in {T1, T2} : \A label \in {LabelExpert, LabelAdmin} :
        HasRecord(ledger, task_id) =>
            /\ \A deployment \in Deployments :
               \A out \in EndpointOutcomes("confirm_task", HeaderOf(label),
                                           <<task_id, U1>>, deployment) :
                   /\ out.http = HTTP_200_OK
                   /\ StoredTask(out.state, task_id).status = CONFIRMED
            /\ \A out \in { TaskDocument_invoke_chaincode(ledger, "updateTaskStatus",
                                 <<task_id, CONFIRMED, U1>>, Still(clock), FALSE, FALSE) } :
                   /\ out.res.success
                   /\ StoredTask(out.state, task_id).status = CONFIRMED
            /\ \A out \in { invoke_chaincode(ledger, "updateTaskStatus",
                                 <<task_id, CONFIRMED, U1>>, Still(clock), FALSE, FALSE) } :
                   /\ out.res.success
                   /\ StoredTask(out.state, task_id).status = CONFIRMED

\* ----------------------------------------------------------------- C21
\* invocations that read the record of a task
ReadingCalls ==
    { <<"createTask", <<T1, <<"b">>, <<"e">>, U2, U1>>>>,
      <<"createTask", <<T2, <<"a">>, <<"d">>, U1, U2>>>>,
      <<"updateTaskStatus", <<T1, TASK_STATUS_CANCELLED, U1>>>>,
      <<"addDocumentVersion", <<T1, D1, V2, H2, U2>>>>,
      <<"getTask", <<T1>>>>,
      <<"getDocumentVersions", <<T1, D1>>>> }

\* C21 (as claimed): when the ledger read of an invocation fails while a
\* record is stored intact under the key, the invocation returns a failure that is
\* not task-not-found, makes no put and leaves the ledger as it was; a
\* createTask never replaces a stored task.
C21_ReadFaultReported ==
    \A call \in ReadingCalls : \A putFault \in BOOLEAN :
       \A out \in InvokeOutcomes(call[1], call[2], TRUE, putFault) :
          (out.gets # 0 /\ HasRecord(ledger, sanitize_string(call[2][1]))) =>
             /\ ~out.res.success
             /\ out.res.error # "task_not_found"
             /\ out.puts = 0
             /\ out.state = ledger

\* ----------------------------------------------------------------- C22
\* every kind of invocation: the dispatched ones, each function with every
\* argument count, the mutating ones on a second task and the invalid ones
FrameCalls ==
    ProbeCalls \cup MutatingCalls \cup ReadingCalls
    \cup { call \in InvalidCalls : call[2][1] = T1 }
    \cup { <<"createTask", <<<<" ">> \o T2 \o <<" ">>, <<"a">>, <<"d">>, U1, U2>>>>,
           <<"updateTaskStatus", <<<<" ">> \o T1, TASK_STATUS_CANCELLED, U2>>>> }

\* the ledger keys whose stored text differs between two ledger states
ChangedKeys(before, after) ==
    { k \in (DOMAIN before) \cup (DOMAIN after) :
        stub_get_state(before, k) # stub_get_state(after, k) }

\* C22: under every fault of the ledger's read and write, a successful
\* createTask, updateTaskStatus and addDocumentVersion makes exactly one
\* put, and the only key it can change is TASK_<taskId> of its own task,
\* which is stored afterwards; a failing invocation and every getTask and
\* getDocumentVersions leaves the ledger as it was, with no put at all
\* except the single put the ledger did not take; no invocation removes a
\* key.
C22_OnePutPerSuccess ==
    \A call \in FrameCalls : \A fc \in FaultCases :
       \A out \in InvokeOutcomes(call[1], call[2], fc[1], fc[2]) :
          /\ DOMAIN ledger \subseteq DOMAIN out.state
          /\ IF out.res.success
                /\ call[1] \in {"createTask", "updateTaskStatus", "addDocumentVersion"}
             THEN /\ out.puts = 1
                  /\ ~fc[2]
                  /\ create_task_key(sanitize_string(call[2][1])) \in DOMAIN out.state
                  /\ ChangedKeys(ledger, out.state)
                        \subseteq {create_task_key(sanitize_string(call[2][1]))}
             ELSE /\ out.state = ledger
                  /\ out.puts = 0
                        \/ (~out.res.success /\ out.res.error = "put_failed" /\ out.puts = 1)

\* on a stored task holding a document: an update and an attachment each
\* make one put to TASK_T1, the creation of a second task one put to
\* TASK_T2; the duplicate creation, a refused status, a read and a write the
\* ledger does not take leave the ledger as it was
C22_Witness ==
    /\ HasRecord(ledger, T1) /\ ~HasRecord(ledger, T2)
    /\ StoredTask(ledger, T1).documents # <<>>
    /\ \E out \in InvokeOutcomes("updateTaskStatus", <<T1, TASK_STATUS_COMPLETED, U1>>,
                                 FALSE, FALSE) :
          /\ out.res.success /\ out.puts = 1
          /\ ChangedKeys(ledger, out.state) = {create_task_key(T1)}
    /\ \E out \in InvokeOutcomes("addDocumentVersion", <<T1, D1, V2, H2, U2>>,
                                 FALSE, FALSE) :
          /\ out.res.success /\ out.puts = 1
          /\ ChangedKeys(ledger, out.state) = {create_task_key(T1)}
    /\ \E out \in InvokeOutcomes("createTask", <<T2, <<"a">>, <<"d">>, U1, U2>>,
                                 FALSE, FALSE) :
          /\ out.res.success /\ out.puts = 1
          /\ ChangedKeys(ledger, out.state) = {create_task_key(T2)}
    /\ \E out \in InvokeOutcomes("createTask", <<T1, <<"b">>, <<"e">>, U2, U1>>,
                                 FALSE, FALSE) :
          ~out.res.success /\ out.puts = 0 /\ out.state = ledger
    /\ \E out \in InvokeOutcomes("updateTaskStatus", <<T1, BOGUS, U2>>, FALSE, FALSE) :
          ~out.res.success /\ out.puts = 0 /\ out.state = ledger
    /\ \E out \in InvokeOutcomes("getTask", <<T1>>, FALSE, FALSE) :
          out.res.success /\ out.puts = 0 /\ out.state = ledger
    /\ \E out \in InvokeOutcomes("updateTaskStatus", <<T1, TASK_STATUS_COMPLETED, U1>>,
                                 FALSE, TRUE) :
          ~out.res.success /\ out.puts = 1 /\ out.state = ledger

\* --------------------------------------------------------------- key space
\* str.join of a list of strings
RECURSIVE Join(_, _)
Join(parts, sep) ==
    IF parts = <<>> THEN <<>>
    ELSE IF Len(parts) = 1 THEN parts[1]
    ELSE parts[1] \o sep \o Join(Tail(parts), sep)

\* a composite key joined with the delimiter of the simple keys
create_composite_key_underscore(object_type, attributes) ==
    object_type \o <<"_">> \o Join(attributes, <<"_">>)

\* StateManager.create_composite_key when the ledger's primitive raises:
\* f"{object_type}:{':'.join(attributes)}"
create_composite_key(object_type, attributes) ==
    object_type \o <<":">> \o Join(attributes, <<":">>)

\* caller-supplied identifiers, with and without the delimiters
KeyIds ==
    { <<"a">>, <<"b">>, <<"c">>, <<"a","_","b">>, <<"b","_","c">>,
      <<"a",":","b">>, <<>> }

\* type tags of composite keys: the two key prefixes, the object type
\* DOCUMENT, and a tag that contains a simple key's prefix
KeyTypes ==
    { KEY_PREFIX_TASK, KEY_PREFIX_DOCUMENT,
      <<"D","O","C","U","M","E","N","T">>, <<"T","A","S","K","_","a">> }

KeyAttributes ==
    { <<>>, <<<<"a">>>>, <<<<"b">>>>, <<<<"a">>, <<"b">>>>, <<<<"a",":","b">>>>,
      <<<<"a","_","b">>>> }

\* the number of key derivations made so far
Derivations == Total([k \in DOMAIN derived |-> Cardinality(derived[k])], DOMAIN derived)

\* one derivation of a key from its inputs, recorded under the key
Derive(key, input) ==
    /\ Derivations < MaxKeys
    /\ derived' = DictSet(derived, key, (IF key \in DOMAIN derived THEN derived[key] ELSE {})
                                          \cup {input})
    /\ UNCHANGED <<ledger, clock, creates, attached, firstSeen, inflight>>

TaskKey ==
    \E task_id \in KeyIds : Derive(create_task_key(task_id), <<"task", task_id>>)

DocumentKey ==
    \E task_id, document_id \in KeyIds :
        Derive(create_document_key(task_id, document_id),
               <<"document", task_id, document_id>>)

CompositeKey ==
    \E object_type \in KeyTypes, attributes \in KeyAttributes :
        Derive(create_composite_key(object_type, attributes),
               <<"composite", object_type, attributes>>)

KeyNext ==
    \/ TaskKey
    \/ DocumentKey
    \/ CompositeKey

\* the key functions applied to identifiers of every shape
KeySpec == Init /\ [][KeyNext]_vars

\* the inputs recorded under some key that are of one of the given kinds
DerivedOf(key, kinds) == { input \in derived[key] : input[1] \in kinds }

\* ----------------------------------------------------------------- C23
\* C23 (as claimed): distinct taskIds give distinct task keys, distinct
\* (taskId, documentId) pairs give distinct document keys and no task key is
\* a document key, for every identifier, those containing the delimiter
\* included: no key is derived from two different inputs.
C23_KeysCollisionFree ==
    \A key \in DOMAIN derived :
        Cardinality(DerivedOf(key, {"task", "document"})) <= 1

\* ----------------------------------------------------------------- C24
\* the fallback gives one key per input
Reproducible ==
    \A k1, k2 \in DOMAIN derived :
        (DerivedOf(k1, {"composite"}) \cap DerivedOf(k2, {"composite"}) # {}) => k1 = k2

\* a type tag that begins with the prefix and delimiter of a simple key
BeginsWithKeyPrefix(object_type) ==
    \/ IsPrefix(create_task_key(<<>>), object_type)
    \/ IsPrefix(KEY_PREFIX_DOCUMENT \o <<"_">>, object_type)

\* C24 (as claimed): the colon-joined fallback returns the same key for the
\* same inputs and never a key that create_task_key or create_document_key
\* produces.
C24_FallbackNeverCollides ==
    /\ Reproducible
    /\ \A key \in DOMAIN derived :
          DerivedOf(key, {"composite"}) # {} => DerivedOf(key, {"task", "document"}) = {}

\* C24 (amended): the colon-joined fallback returns the same key for the
\* same inputs, and for a type tag that does not itself begin with TASK_ or
\* DOC_ never a key that create_task_key or create_document_key produces.
C24_FallbackApartFromSimpleKeys ==
    /\ Reproducible
    /\ \A key \in DOMAIN derived :
          (\E input \in DerivedOf(key, {"composite"}) : ~BeginsWithKeyPrefix(input[2]))
             => DerivedOf(key, {"task", "document"}) = {}

\* the composite key of type TASK for the identifier a:b and the task key
\* of the same identifier were both derived, and differ
C24_Witness ==
    /\ create_task_key(<<"a",":","b">>) \in DOMAIN derived
    /\ create_composite_key(KEY_PREFIX_TASK, <<<<"a",":","b">>>>) \in DOMAIN derived
    /\ derived[create_task_key(<<"a",":","b">>)] = {<<"task", <<"a",":","b">>>>}
    /\ derived[create_composite_key(KEY_PREFIX_TASK, <<<<"a",":","b">>>>)]
          = {<<"composite", KEY_PREFIX_TASK, <<<<"a",":","b">>>>>>}

\* ----------------------------------------------------------------- C25
\* the outcomes of a createTask invocation on the running clock
TimedCreateOutcomes(a) ==
    { DoCreate(ledger, a, ts, FALSE, FALSE) :
        ts \in ReadingsUpTo(clock, DoCreate(ledger, a, Still(clock), FALSE, FALSE).reads,
                            MaxTick) }

\* C25 (as claimed): right after a successful CreateTask the stored task has
\* created_at equal to updated_at.
C25_CreatedEqualsUpdated ==
    \A a \in TimedCreateArgs \cup { <<T2, <<"a">>, <<"d">>, U1, U2>> } :
       \A out \in TimedCreateOutcomes(a) :
          out.res.success =>
             StoredTask(out.state, sanitize_string(a[1])).created_at
                = StoredTask(out.state, sanitize_string(a[1])).updated_at

\* ------------------------------------------- interleaved invocations
\* Two callers invoke the engine over one ledger stub (ChaincodeStub keeps a
\* plain dict, without versions or locks).  A handler reads the task with
\* get_state, changes the copy it read and writes it back with put_state;
\* the steps of another caller may fall between its read and its write.
Callers == {1, 2}

ConcurrentCalls ==
    { <<"createTask", <<T1, <<"a">>, <<"d">>, U1, U2>>>>,
      <<"createTask", <<T1, <<"b">>, <<"e">>, U2, U1>>>>,
      <<"updateTaskStatus", <<T1, TASK_STATUS_IN_PROGRESS, U1>>>>,
      <<"addDocumentVersion", <<T1, D1, V1, H1, U1>>>>,
      <<"addDocumentVersion", <<T1, D1, V2, H2, U2>>>> }

\* the callers whose invocation has read and not yet returned
Reading == { p \in DOMAIN inflight : "res" \notin DOMAIN inflight[p] }

\* the callers whose invocation has returned
Returned == { p \in DOMAIN inflight : "res" \in DOMAIN inflight[p] }

\* a caller that is not inside an invocation starts one, be it its first or
\* the next after one that returned: the handler's get_state sees the ledger
\* as it is now
BeginInvocation ==
    \E p \in Callers \ Reading : \E call \in ConcurrentCalls :
      /\ call[1] = "createTask" =>
            Total(creates, DOMAIN creates) + Cardinality(Reading) < MaxCreates
      /\ call[1] = "addDocumentVersion" =>
            TotalLen(attached, DOMAIN attached) + Cardinality(Reading) < MaxVersions
      /\ inflight' = DictSet(inflight, p, [call |-> call, seen |-> ledger])
      /\ UNCHANGED <<ledger, clock, creates, attached, firstSeen, derived>>

\* the invocation goes on from what it read: the record the handler built
\* from the ledger it saw is put under the task key of the ledger as it is
\* now, and the envelope is returned
FinishInvocation ==
    \E p \in Reading :
      \E out \in { invoke_chaincode(inflight[p].seen, inflight[p].call[1],
                                    inflight[p].call[2], Still(clock),
                                    FALSE, FALSE) } :
        LET call == inflight[p].call
            tid == sanitize_string(call[2][1])
            key == create_task_key(tid)
            created == out.engine = <<"create_task">> /\ out.res.success
            added == out.engine = <<"add_document_version">> /\ out.res.success
        IN  /\ ledger' = IF out.puts = 1 /\ out.res.success
                         THEN stub_put_state(ledger, key, out.state[key])
                         ELSE ledger
            /\ inflight' = DictSet(inflight, p, [call |-> call, seen |-> inflight[p].seen,
                                                 res |-> out.res])
            /\ creates' = IF created
                          THEN DictSet(creates, key, Count(creates, key) + 1)
                          ELSE creates
            /\ attached' = IF added
                           THEN DictSet(attached, <<tid, sanitize_string(call[2][2])>>,
                                    Append(Log(attached, <<tid, sanitize_string(call[2][2])>>),
                                           out.res.data.document_version))
                           ELSE attached
            /\ firstSeen' = IF added
                            THEN DictSet(firstSeen, tid,
                                     AppendNew(Log(firstSeen, tid), call[2][2]))
                            ELSE firstSeen
            /\ UNCHANGED <<clock, derived>>

\* once every invocation under way has returned the callers drop the
\* envelopes they hold
Settle ==
    /\ inflight # [p \in {} |-> None]
    /\ Reading = {}
    /\ inflight' = [p \in {} |-> None]
    /\ UNCHANGED <<ledger, clock, creates, attached, firstSeen, derived>>

ConcurrentNext ==
    \/ BeginInvocation
    \/ FinishInvocation
    \/ Settle

\* the engine invoked by two callers at once
ConcurrentSpec == Init /\ [][ConcurrentNext]_vars

\* ----------------------------------------------------------------- C26
\* the versions stored for a document of a task
StoredVersions(state, task_id, document_id) ==
    IF ~HasRecord(state, task_id) THEN <<>>
    ELSE LET docs == DocumentsOf(StoredTask(state, task_id))
         IN  IF FindDocument(docs, document_id) = 0 THEN <<>>
             ELSE VersionsOf(docs[FindDocument(docs, document_id)])

\* the effect of a returned successful invocation is in the stored record:
\* the attached version is among the document's versions, the task updated
\* by an invocation that was not followed by another update has the new
\* status
EffectPresent(p) ==
    LET call == inflight[p].call
        res == inflight[p].res
    IN  res.success =>
          CASE call[1] = "addDocumentVersion" ->
                 res.data.document_version
                    \in Range(StoredVersions(ledger, sanitize_string(call[2][1]),
                                             sanitize_string(call[2][2])))
            [] call[1] = "updateTaskStatus" ->
                 StoredTask(ledger, sanitize_string(call[2][1])).status = res.data.new_status
            [] OTHER -> HasRecord(ledger, sanitize_string(call[2][1]))

\* C26 (as claimed): once the interleaved invocations on one taskId have all
\* returned, the effect of every one that returned success is in the stored
\* record, every version acknowledged so far is stored, and at most one
\* CreateTask of a taskId has returned success.
C26_NoLostEffect ==
    Reading = {} =>
       /\ \A p \in Returned : EffectPresent(p)
       /\ \A k \in DOMAIN attached :
             \A i \in 1..Len(attached[k]) :
                attached[k][i] \in Range(StoredVersions(ledger, k[1], k[2]))
       /\ \A k \in DOMAIN creates : creates[k] <= 1

\* ----------------------------------------------------------------- C27
\* the fields of a task that are set when it is created
CreationFields == {"task_id", "title", "description", "assignee", "creator", "created_at"}

\* two records agree on a field, present in both or in neither
SameField(old, new, f) ==
    /\ (f \in DOMAIN old) = (f \in DOMAIN new)
    /\ f \in DOMAIN old => old[f] = new[f]

\* a step of the engine: a successful addDocumentVersion is the step that
\* changes attached; no other step may change the documents of a task
C27_Step ==
    /\ \A key \in DOMAIN ledger :
          /\ key \in DOMAIN ledger'
          /\ \A f \in CreationFields :
                SameField(json_loads(ledger[key]), json_loads(ledger'[key]), f)
          /\ attached' # attached =>
                /\ SameField(json_loads(ledger[key]), json_loads(ledger'[key]), "status")
                /\ SameField(json_loads(ledger[key]), json_loads(ledger'[key]), "updated_by")
          /\ attached' = attached =>
                SameField(json_loads(ledger[key]), json_loads(ledger'[key]), "documents")
    /\ Cardinality(ChangedKeys(ledger, ledger')) <= 1

\* C27 (as claimed): no operation changes the task_id, title, description, assignee,
\* creator or created_at of a stored task; updateTaskStatus leaves its
\* documents as they were, addDocumentVersion its status and updated_by, and
\* an operation changes the record of one task at most.
C27_CreationFieldsFrozen == [][C27_Step]_vars

\* ----------------------------------------------------------------- C28
\* C28 (as claimed): after a successful AddDocumentVersion(taskId,
\* documentId, ...), GetDocumentVersions with the same taskId and documentId
\* succeeds and the last of its versions is the version just attached, for
\* every documentId that AddDocumentVersion accepts, the empty one included.
C28_AttachmentReadBack ==
    \A a \in ProbeAdd : \A out \in AddOutcomes(a) :
        out.res.success =>
           \A ts \in ReadingsFrom(out.res.timestamp, 1) :
              LET read == DoGetVersions(out.state, <<a[1], a[2]>>, ts, FALSE).res
              IN  /\ read.success
                  /\ read.data.versions # <<>>
                  /\ read.data.versions[Len(read.data.versions)]
                        = out.res.data.document_version

====
